---- MODULE Spec2Model ----
(***************************************************************************)
(* Model of the geo-profit-analytics frontend: the financial analysis view *)
(* (cash-flow totals and table, the formatting of the IRR), the project    *)
(* comparison subsystem (project selection, synthesis of comparison        *)
(* metrics, ranking table and radar chart), the integrated dashboard with  *)
(* its report button and cash-flow bar chart, the report generator, the    *)
(* request handling of the data-fetching views, the overlapping requests   *)
(* of the financial analysis view and the navigation of App.               *)
(* Each view has its own specification over the one list of variables.     *)
(*                                                                         *)
(* Units.  Currency is in whole dollars.  The IRR of a project is in       *)
(* thousandths (0.3 is 300); the irr field of an analysis response is a    *)
(* JavaScript value, a finite one counted in hundred-thousandths.  Scores  *)
(* (location, accessibility, sustainability, overall) and ROI are in       *)
(* tenths (8.5 is 85, the ROI ceiling 100 is 1000).  Bar heights of the    *)
(* dashboard chart are in tenths of a pixel.                               *)
(*                                                                         *)
(* Optional values (null, undefined, an unmounted component) are the empty *)
(* sequence None; a present value x is Some(x) = <<x>>.                    *)
(***************************************************************************)
EXTENDS Integers, Sequences, FiniteSets, TLC

VARIABLES
    result,            \* ProjectAnalysis: useState<AnalysisResult | null>
    analysisView,      \* ProjectAnalysis: what the last render of the result block shows
    allProjects,       \* ProjectComparison: useState<Project[]>
    projectsRequest,   \* ProjectComparison: state of the getProjects() call issued on mount
    selectedProjects,  \* ProjectComparison: useState<Project[]>
    comparisonData,    \* ProjectComparison: useState<ComparisonData | null>
    loading,           \* ProjectComparison: useState(false)
    viewMode,          \* ProjectComparison: useState<'matrix' | 'radar' | 'ranking'>
    sortBy,            \* RankingTable: useState("overall"), None while not mounted
    rankingView,       \* RankingTable: what its last render shows, None while not mounted
    radarView,         \* RadarComparison: the polygons its effect drew, None while not mounted
    firstShown,        \* history: per sort key, the order first displayed for it
    analysisData,      \* IntegratedAnalysisDashboard: useState<AnalysisData>
    financialCall,     \* IntegratedAnalysisDashboard: state of its runFinancialAnalysis call
    issuedCalls,       \* IntegratedAnalysisDashboard: the backend calls it has issued, in order
    dashTimers,        \* IntegratedAnalysisDashboard: its pending setTimeout callbacks
    dashboardView,     \* IntegratedAnalysisDashboard: what its last render shows
    reportData,        \* App: navigationData.reportData, the props of ReportGenerator
    exportFormat,      \* ReportGenerator: useState<'pdf' | 'html' | 'docx'>('pdf')
    generating,        \* ReportGenerator: useState(false)
    pendingGeneration, \* ReportGenerator: the pending setTimeout callback and the format it closed over
    downloads,         \* ReportGenerator: the files handed to the browser, in order
    fetchRequest,      \* per data-fetching view: state of its backend request
    fetchError,        \* per data-fetching view: its error message (None for null / no such state)
    fetchLoading,      \* per data-fetching view: its loading flag
    fetchResult,       \* per data-fetching view: the data it holds
    mockTimers,        \* the views whose setTimeout for the simulated result is pending
    currentPage,       \* App: useState<Page>("dashboard")
    navigationData,    \* App: useState<NavigationData>({})
    financialRequests, \* ProjectAnalysis: the state of each runFinancialAnalysis call, as issued
    chartFlows,        \* AdvancedFuturisticCharts: its cashFlows prop (None for undefined)
    chartView          \* AdvancedFuturisticCharts: what CSSCashFlowChart last rendered

vars == <<result, analysisView, allProjects, projectsRequest, selectedProjects,
          comparisonData, loading, viewMode, sortBy, rankingView, radarView,
          firstShown, analysisData, financialCall, issuedCalls, dashTimers,
          dashboardView, reportData, exportFormat, generating, pendingGeneration,
          downloads, fetchRequest, fetchError, fetchLoading, fetchResult,
          mockTimers, currentPage, navigationData, financialRequests,
          chartFlows, chartView>>

analysisVars == <<result, analysisView>>
selectVars == <<allProjects, projectsRequest, selectedProjects, loading>>
viewVars == <<viewMode, sortBy, rankingView, radarView, firstShown>>
comparisonVars == <<selectVars, comparisonData, viewVars>>
dashVars == <<analysisData, financialCall, issuedCalls, dashTimers, dashboardView>>
reportVars == <<reportData, exportFormat, generating, pendingGeneration, downloads>>
fetchVars == <<fetchRequest, fetchError, fetchLoading, fetchResult, mockTimers>>
navVars == <<currentPage, navigationData>>
chartVars == <<chartFlows, chartView>>
appVars == <<navVars, financialRequests, chartVars>>
pageVars == <<dashVars, reportVars, fetchVars, appVars>>

None == <<>>
Some(x) == <<x>>

(***************************************************************************)
(* Array helpers: Array.prototype.filter, reduce, slice, map.              *)
(***************************************************************************)
RECURSIVE SumSeq(_)
SumSeq(s) == IF s = <<>> THEN 0 ELSE s[1] + SumSeq(Tail(s))

Abs(x) == IF x < 0 THEN -x ELSE x

\* Array.prototype.slice(0, n): the first min(n, length) elements
Slice(s, n) == SubSeq(s, 1, IF n < Len(s) THEN n ELSE Len(s))

(***************************************************************************)
(* Bounds of the model.                                                    *)
(***************************************************************************)
MaxFlows == 13        \* longest cash-flow sequence over SignedFlows
MaxShortFlows == 6    \* longest cash-flow sequence over AllFlows
NumProjects == 5      \* projects the backend lists
MaxDownloads == 2     \* reports downloaded in one visit of the report page
MaxIrrCount == 12     \* largest small IRR magnitude drawn, in hundred-thousandths

(***************************************************************************)
(* ProjectAnalysis.tsx                                                     *)
(***************************************************************************)
DisplayCap == 12

(***************************************************************************)
(* JavaScript values of a field typed `any` (the irr of a response), and   *)
(* the texts a view renders for them.  A finite number is counted in       *)
(* hundred-thousandths (0.15 is 15000), so that value * 100 is the same    *)
(* count in thousandths of a percent and toFixed has digits to round.  A   *)
(* string is the sequence of its pieces; the corrupt token is one piece.   *)
(***************************************************************************)
JsUndefined == <<"undefined">>
JsNull == <<"null">>
JsNaN == <<"number", <<"NaN">>>>
JsInfinity == <<"number", <<"Infinity">>>>
JsNegInfinity == <<"number", <<"-Infinity">>>>
JsFinite(n) == <<"number", <<"finite", n>>>>
JsString(pieces) == <<"string", pieces>>

typeof(value) == value[1]
isNaN(value) == value = JsNaN
isFinite(value) == typeof(value) = "number" /\ value[2][1] = "finite"

\* a literal text, and the text of a number of percent with `digits` decimals
\* (count is the number in units of 10^-digits) followed by '%'
Text(pieces) == <<"text", pieces>>
PercentText(count, digits) == <<"percent", count, digits>>
NotAvailable == Text(<<"N/A">>)
NaNPercent == Text(<<"NaN", "%">>)

CorruptToken == "YayA"

\* String.prototype.includes
includes(pieces, token) == \E k \in 1..Len(pieces) : pieces[k] = token

\* (value * 100).toFixed(2) of a finite number: the nearest count of
\* hundredths, the larger one on a tie
toFixed2(n) == (n + 5) \div 10

SignedFlows == {-100000, 20000}
AllFlows == {-100000, 0, 20000}

CashFlowInputs ==
    UNION {[1..n -> SignedFlows] : n \in 0..MaxFlows}
    \cup UNION {[1..n -> AllFlows] : n \in 0..MaxShortFlows}

\* the financial analysis responses the backend can send: cash_flows is optional
ResultInputs ==
    {[npv |-> 25000, irr |-> JsFinite(15000), cash_flows |-> cf] :
        cf \in {None} \cup {Some(f) : f \in CashFlowInputs}}

\* the values an irr field of a response can hold: absent, null, numbers
\* (small ones around the rounding steps, and usual rates) and strings
FiniteIrrs == (0 - MaxIrrCount)..MaxIrrCount \cup {12000, 12345, 15000, 45004, 45005}

StringPieces == {CorruptToken, "%", "NaN", "12.5"}

StringInputs == UNION {[1..n -> StringPieces] : n \in 0..2}

IrrInputs ==
    {JsUndefined, JsNull, JsNaN, JsInfinity, JsNegInfinity}
    \cup {JsFinite(n) : n \in FiniteIrrs}
    \cup {JsString(s) : s \in StringInputs}

formatPercentage(value) ==
    IF value = JsUndefined \/ value = JsNull THEN NotAvailable
    ELSE IF typeof(value) = "string"
    THEN IF includes(value[2], CorruptToken) \/ value[2] = <<CorruptToken, "%">>
         THEN NotAvailable
         ELSE Text(value[2])
    ELSE IF typeof(value) = "number" /\ ~isNaN(value) /\ isFinite(value)
    THEN PercentText(toFixed2(value[2][2]), 2)
    ELSE NotAvailable

NegativeFlows(flows) == SelectSeq(flows, LAMBDA flow : flow < 0)
PositiveFlows(flows) == SelectSeq(flows, LAMBDA flow : flow > 0)

\* .reduce((sum, flow) => sum + Math.abs(flow), 0)
RECURSIVE SumAbs(_)
SumAbs(s) == IF s = <<>> THEN 0 ELSE Abs(s[1]) + SumAbs(Tail(s))

\* the reduce without Math.abs
totalInvestmentSigned(flows) == SumSeq(NegativeFlows(flows))

totalInvestment(flows) == SumAbs(NegativeFlows(flows))

totalRevenue(flows) == SumSeq(PositiveFlows(flows))

calculateTotals(r) ==
    IF r.cash_flows # None /\ Len(r.cash_flows[1]) > 0
    THEN [total_investment |-> totalInvestment(r.cash_flows[1]),
          total_revenue |-> totalRevenue(r.cash_flows[1]),
          cash_flows |-> r.cash_flows]
    ELSE [total_investment |-> 0,
          total_revenue |-> 0,
          cash_flows |-> r.cash_flows]

\* const accumulated = cash_flows.slice(0, index + 1).reduce((sum, f) => sum + f, 0)
\* index is the 0-based row index
accumulatedExclusive(flows, index) == SumSeq(Slice(flows, index))

accumulated(flows, index) == SumSeq(Slice(flows, index + 1))

\* the <tr> rows of the cash-flow table: cash_flows.slice(0, 12).map(...)
CashFlowRows(flows) ==
    [k \in 1..Len(Slice(flows, DisplayCap)) |->
        [period |-> k,
         flow |-> Slice(flows, DisplayCap)[k],
         accumulated |-> accumulated(flows, k - 1)]]

\* the bars of a chart given the flows it draws: label, value and colour
ChartBars(flows) ==
    [k \in 1..Len(flows) |->
        [label |-> k,
         value |-> flows[k],
         backgroundColor |-> IF flows[k] >= 0 THEN "green" ELSE "red"]]

\* the chart drawing every flow it is handed
CashFlowChartUncapped(cashFlows) == ChartBars(cashFlows)

\* const displayFlows = cashFlows.slice(0, 12) and the data handed to <Bar>
CashFlowChart(cashFlows) == ChartBars(Slice(cashFlows, DisplayCap))

\* the {result && (...)} block of the render
RenderAnalysis(r) ==
    LET calculatedTotals == calculateTotals(r)
    IN [irr |-> formatPercentage(r.irr),
        total_investment |-> calculatedTotals.total_investment,
        total_revenue |-> calculatedTotals.total_revenue,
        rows |-> IF calculatedTotals.cash_flows # None
                    /\ Len(calculatedTotals.cash_flows[1]) > 0
                 THEN Some(CashFlowRows(calculatedTotals.cash_flows[1]))
                 ELSE None,
        chart |-> IF calculatedTotals.cash_flows # None
                     /\ Len(calculatedTotals.cash_flows[1]) > 0
                  THEN Some(CashFlowChart(calculatedTotals.cash_flows[1]))
                  ELSE None]

(***************************************************************************)
(* types/index.ts, services/api.ts: the projects the backend lists.        *)
(* npv and irr are optional; project 1 carries values above the radar      *)
(* ceilings, project 2 a negative NPV, project 4 a present value of 0.     *)
(***************************************************************************)
ProjectOf(i) ==
    [id |-> i,
     name |-> <<"Proyecto", i>>,
     npv |-> CASE i = 1 -> Some(5000000)
               [] i = 2 -> Some(-500000)
               [] i = 4 -> Some(0)
               [] OTHER -> None,
     irr |-> CASE i = 1 -> Some(450)
               [] i = 2 -> Some(120)
               [] i = 4 -> Some(0)
               [] OTHER -> None]

\* response.data.items of GET /projects/
BackendProjects == [i \in 1..NumProjects |-> ProjectOf(i)]

(***************************************************************************)
(* ProjectComparison.tsx                                                   *)
(***************************************************************************)
MaxSelected == 4

\* selectedProjects.find(p => p.id === project.id)
isSelected(selected, project) ==
    \E k \in 1..Len(selected) : selected[k].id = project.id

\* ProjectSelector: const canSelect = selectedProjects.length < 4 || isSelected
canSelect(selected, project) ==
    Len(selected) < MaxSelected \/ isSelected(selected, project)

\* handleProjectSelect without the toggle: a click always adds
handleProjectSelectNoToggle(selected, project) ==
    IF Len(selected) < MaxSelected
    THEN Append(selected, project)
    ELSE selected

\* the new value handleProjectSelect sets selectedProjects to
handleProjectSelect(selected, project) ==
    IF isSelected(selected, project)
    THEN SelectSeq(selected, LAMBDA p : p.id # project.id)
    ELSE IF Len(selected) < MaxSelected
         THEN Append(selected, project)
         ELSE selected

\* Math.random() * scale + offset, as the values the model draws.  R is a
\* record of value sets, one per call of Math.random in runComparison.
RandCoarse ==
    [npv |-> {250000}, irr |-> {150}, roi |-> {250}, location |-> {80},
     accessibility |-> {75}, score |-> {70}, carbonFootprint |-> {1200},
     overall |-> {85}]

RandFine ==
    [npv |-> {250000}, irr |-> {90, 180}, roi |-> {250}, location |-> {80},
     accessibility |-> {75}, score |-> {70, 95}, carbonFootprint |-> {1200},
     overall |-> {62, 85}]

\* project.npv || Math.random() * 1000000: an absent field and a falsy
\* value (0) both fall through to the random value
OrRandom(field, rand) ==
    IF field # None /\ field[1] # 0 THEN {field[1]} ELSE rand

\* the metric bundles runComparison can synthesize for one project
MetricBundles(project, R) ==
    {[financial |-> [npv |-> n, irr |-> i, roi |-> r],
      geospatial |-> [location |-> l, accessibility |-> a],
      sustainability |-> [score |-> s, carbonFootprint |-> c],
      overall |-> o] :
        n \in OrRandom(project.npv, R.npv),
        i \in OrRandom(project.irr, R.irr),
        r \in R.roi, l \in R.location, a \in R.accessibility,
        s \in R.score, c \in R.carbonFootprint, o \in R.overall}

\* the values mockData can take for a selection
MockData(selected, R) ==
    {[projects |-> selected, metrics |-> m] :
        m \in {mm \in [1..Len(selected) -> UNION {MetricBundles(selected[k], R) :
                                                    k \in 1..Len(selected)}] :
                 \A k \in 1..Len(selected) : mm[k] \in MetricBundles(selected[k], R)}}

\* runComparison with its guard off by one
runComparisonFromOne(selected, current, R) ==
    IF Len(selected) < 1
    THEN {current}
    ELSE {Some(d) : d \in MockData(selected, R)}

\* the new value of comparisonData after runComparison: the early return
\* leaves it as it is
runComparison(selected, current, R) ==
    IF Len(selected) < 2
    THEN {current}
    ELSE {Some(d) : d \in MockData(selected, R)}

(***************************************************************************)
(* RankingTable.tsx                                                        *)
(***************************************************************************)
SortKeys == {"overall", "npv", "irr", "sustainability"}

\* data.projects.map((project, index) => ({...project, metrics: data.metrics[index]}))
projectsWithScores(data) ==
    [k \in 1..Len(data.projects) |->
        [id |-> data.projects[k].id,
         name |-> data.projects[k].name,
         npv |-> data.projects[k].npv,
         irr |-> data.projects[k].irr,
         metrics |-> data.metrics[k]]]

\* the field of a row the sort key selects
SortField(row, key) ==
    CASE key = "npv" -> row.metrics.financial.npv
      [] key = "irr" -> row.metrics.financial.irr
      [] key = "sustainability" -> row.metrics.sustainability.score
      [] OTHER -> row.metrics.overall

\* the comparator with its operands exchanged: ascending
compareRowsAscending(a, b, key) == SortField(a, key) - SortField(b, key)

\* a comparator that never answers 0: equal rows compare as "b first"
compareRowsNoTie(a, b, key) ==
    IF SortField(b, key) >= SortField(a, key) THEN 1 ELSE -1

\* the comparator handed to sort: negative when a goes first
compareRows(a, b, key) == SortField(b, key) - SortField(a, key)

\* Array.prototype.sort with that comparator.  The sort is stable (ECMAScript
\* 2019; insertion sort in older engines for arrays this short): each element
\* is inserted behind every element already placed that does not compare
\* greater than it.
InsertRow(sorted, x, key) ==
    LET behind == {j \in 1..Len(sorted) : compareRows(sorted[j], x, key) <= 0}
        at == IF behind = {} THEN 0
              ELSE CHOOSE j \in behind : \A i \in behind : i <= j
    IN SubSeq(sorted, 1, at) \o <<x>> \o SubSeq(sorted, at + 1, Len(sorted))

RECURSIVE SortRows(_, _, _)
SortRows(arr, n, key) ==
    IF n = 0 THEN <<>>
    ELSE InsertRow(SortRows(arr, n - 1, key), arr[n], key)

\* the rows without the metrics attached by projectsWithScores
StripMetrics(rows) ==
    [k \in 1..Len(rows) |->
        [id |-> rows[k].id, name |-> rows[k].name, npv |-> rows[k].npv,
         irr |-> rows[k].irr]]

\* getSortedProjects sorting data.projects itself: the project list is left
\* in ranked order, the metrics list as it was
getSortedProjectsNoCopy(data, key) ==
    LET sorted == SortRows(projectsWithScores(data), Len(data.projects), key)
    IN [data |-> [projects |-> StripMetrics(sorted), metrics |-> data.metrics],
        rows |-> sorted]

\* getSortedProjects sorting the pairs held by data: both lists are left in
\* ranked order
getSortedProjectsInPlace(data, key) ==
    LET sorted == SortRows(projectsWithScores(data), Len(data.projects), key)
    IN [data |-> [projects |-> StripMetrics(sorted),
                  metrics |-> [k \in 1..Len(sorted) |-> sorted[k].metrics]],
        rows |-> sorted]

\* getSortedProjects: the rows in ranked order, and data as the call leaves it
\* (map builds a new array, so the in-place sort does not touch data)
getSortedProjects(data, key) ==
    [data |-> data,
     rows |-> SortRows(projectsWithScores(data), Len(data.projects), key)]

\* rank is 1-based
getMedalEmoji(rank) ==
    CASE rank = 1 -> <<"gold medal">>
      [] rank = 2 -> <<"silver medal">>
      [] rank = 3 -> <<"bronze medal">>
      [] OTHER -> <<"#", rank>>

\* the 0-based index handed on as it is
RankOfIndexRaw(index) == index

\* the row position handed to getMedalEmoji: getMedalEmoji(index + 1), index 0-based
RankOfIndex(index) == index + 1

\* one render of RankingTable
RenderRanking(data, key) ==
    LET sorted == getSortedProjects(data, key)
        sortedProjects == sorted.rows
    IN [data |-> sorted.data,
        view |-> [rows |-> [k \in 1..Len(sortedProjects) |->
                              [medal |-> getMedalEmoji(RankOfIndex(k - 1)),
                               project |-> sortedProjects[k]]],
                  recommended |-> IF Len(sortedProjects) > 0
                                  THEN Some(sortedProjects[1].name)
                                  ELSE None,
                  criterion |-> key]]

\* the project ids of a rendered ranking, top first
OrderOf(view) == [k \in 1..Len(view.rows) |-> view.rows[k].project.id]

(***************************************************************************)
(* RadarComparison.tsx.  A normalized value is the rational num / den with *)
(* den > 0; a vertex lies at distance radius * num / den from the centre.  *)
(***************************************************************************)
RadarMetrics ==
    <<[key |-> "npv", max |-> 2000000],
      [key |-> "irr", max |-> 300],
      [key |-> "location", max |-> 100],
      [key |-> "accessibility", max |-> 100],
      [key |-> "sustainability", max |-> 100],
      [key |-> "roi", max |-> 1000]>>

\* the switch (metric.key): the raw value of the bundle on that axis
RawValue(projectMetrics, key) ==
    CASE key = "npv" -> projectMetrics.financial.npv
      [] key = "irr" -> projectMetrics.financial.irr
      [] key = "location" -> projectMetrics.geospatial.location
      [] key = "accessibility" -> projectMetrics.geospatial.accessibility
      [] key = "sustainability" -> projectMetrics.sustainability.score
      [] key = "roi" -> projectMetrics.financial.roi

\* Math.max(0, value)
Max0(v) == IF v.num < 0 THEN [num |-> 0, den |-> v.den] ELSE v

\* Math.min(1, value)
Min1(v) == IF v.num > v.den THEN [num |-> v.den, den |-> v.den] ELSE v

\* the clamp without its upper limit
ClampBelow(v) == Max0(v)

\* value = Math.min(1, Math.max(0, value))
Clamp(v) == Min1(Max0(v))

\* value = raw / metric.max, clamped
Normalized(projectMetrics, metric) ==
    Clamp([num |-> RawValue(projectMetrics, metric.key), den |-> metric.max])

\* the effect's drawing: per project, per axis, the normalized radius of the vertex
DrawRadar(data) ==
    [p \in 1..Len(data.projects) |->
        [m \in 1..Len(RadarMetrics) |-> Normalized(data.metrics[p], RadarMetrics[m])]]

(***************************************************************************)
(* IntegratedAnalysisDashboard.tsx.  The overall score is counted in       *)
(* six-hundredths (8.5 is 5100), so that the mean of two scores in tenths  *)
(* and the mean of up to three sub-scores are whole numbers.               *)
(***************************************************************************)
InitialAnalysisData ==
    [financial |-> None, geospatial |-> None, sustainability |-> None,
     loading |-> [financial |-> FALSE, geospatial |-> FALSE, sustainability |-> FALSE]]

\* the object literal of the first setTimeout callback
GeospatialMock == [location_score |-> 75, accessibility_score |-> 82]

\* the object literal of the second setTimeout callback
SustainabilityMock ==
    [overall_score |-> 82, carbon_footprint |-> 1250, energy_efficiency |-> 78,
     environmental_impact |-> [co2_reduction |-> 35, water_savings |-> 42,
                               energy_savings |-> 28]]

\* response.data of POST /analysis/{id}/financial: null, or the analysis
FinancialResponses ==
    {None} \cup {Some([npv |-> n, irr |-> v]) : n \in {25000, 0, -5000}, v \in IrrInputs}

\* the updaters handed to setAnalysisData, as functions of prev
startLoading(prev, slice) == [prev EXCEPT !.loading[slice] = TRUE]

completeFinancial(prev, data) ==
    [prev EXCEPT !.financial = data, !.loading.financial = FALSE]

failFinancial(prev) == [prev EXCEPT !.loading.financial = FALSE]

\* the updater written over the state the effect closed over instead of prev
completeGeospatialStale(prev) ==
    [InitialAnalysisData EXCEPT !.geospatial = Some(GeospatialMock)]

completeGeospatial(prev) ==
    [prev EXCEPT !.geospatial = Some(GeospatialMock), !.loading.geospatial = FALSE]

completeSustainability(prev) ==
    [prev EXCEPT !.sustainability = Some(SustainabilityMock),
                 !.loading.sustainability = FALSE]

\* the part of runAllAnalyses after the try / catch: both timers are started
startTimers(prev) == startLoading(startLoading(prev, "geospatial"), "sustainability")

Tenths(score) == score * 60

\* financial.npv > 0 ? 8.5 : 4.0
financialScore(financial) == IF financial.npv > 0 THEN Tenths(85) ELSE Tenths(40)

\* (geospatial.location_score + geospatial.accessibility_score) / 2
geoScore(geospatial) ==
    (Tenths(geospatial.location_score) + Tenths(geospatial.accessibility_score)) \div 2

\* the scores array of getOverallProjectScore
Scores(data) ==
    (IF data.financial # None /\ ~data.loading.financial
     THEN <<financialScore(data.financial[1])>> ELSE <<>>)
    \o (IF data.geospatial # None /\ ~data.loading.geospatial
        THEN <<geoScore(data.geospatial[1])>> ELSE <<>>)
    \o (IF data.sustainability # None /\ ~data.loading.sustainability
        THEN <<Tenths(data.sustainability[1].overall_score)>> ELSE <<>>)

\* getOverallProjectScore dividing by the three analyses instead of scores.length
getOverallProjectScoreOfThree(data) ==
    IF Len(Scores(data)) > 0 THEN SumSeq(Scores(data)) \div 3 ELSE 0

getOverallProjectScore(data) ==
    IF Len(Scores(data)) > 0
    THEN SumSeq(Scores(data)) \div Len(Scores(data))
    ELSE 0

\* Number(value), the conversion the operator * applies to its operand
ToNumber(value) ==
    IF value = JsUndefined THEN JsNaN
    ELSE IF value = JsNull THEN JsFinite(0)
    ELSE IF typeof(value) = "string"
    THEN IF value[2] = <<>> THEN JsFinite(0)
         ELSE IF value[2] = <<"12.5">> THEN JsFinite(1250000)
         ELSE JsNaN
    ELSE value

\* (n * 100).toFixed(1) of a finite number: the nearest count of tenths
toFixed1(n) == (n + 50) \div 100

\* `${(value * 100).toFixed(1)}%`: a number that is not finite prints its name
percentOneDecimal(value) ==
    LET number == ToNumber(value)
    IN IF isFinite(number)
       THEN PercentText(toFixed1(number[2][2]), 1)
       ELSE Text(<<number[2][1], "%">>)

\* the overview of the dashboard: the score in the header and the TIR card
RenderDashboard(data) ==
    [overallScore |-> getOverallProjectScore(data),
     tir |-> IF ~data.loading.financial /\ data.financial # None
             THEN Some(percentOneDecimal(data.financial[1].irr))
             ELSE None]

(***************************************************************************)
(* IntegratedAnalysisDashboard.handleGenerateReport and ReportGenerator.tsx *)
(***************************************************************************)
\* value || 0 for a field typed any: undefined, null, NaN, 0 and '' are falsy
OrZero(value) ==
    IF value \in {JsUndefined, JsNull, JsNaN, JsFinite(0), JsString(<<>>)}
    THEN JsFinite(0)
    ELSE value

\* the characters of a project name: a letter, a space and a tab
NameChars == {"a", " ", "\t"}

\* the characters the class \s of a regular expression matches
Whitespace == {" ", "\t"}

MaxNameLen == 2

\* the projectName prop of the dashboard: any non-empty text the form accepted
ProjectNames == UNION {[1..n -> NameChars] : n \in 1..MaxNameLen}

\* the reportData object handed to onNavigate("reports", { reportData })
handleGenerateReport(projectName, data) ==
    [projectName |-> projectName,
     financial |->
        [npv |-> IF data.financial # None THEN data.financial[1].npv ELSE 0,
         irr |-> IF data.financial # None THEN OrZero(data.financial[1].irr)
                 ELSE JsFinite(0)],
     geospatial |->
        [locationScore |-> IF data.geospatial # None
                           THEN data.geospatial[1].location_score ELSE 0,
         accessibilityScore |-> IF data.geospatial # None
                                THEN data.geospatial[1].accessibility_score ELSE 0],
     sustainability |->
        [overallScore |-> IF data.sustainability # None
                          THEN data.sustainability[1].overall_score ELSE 0]]

\* the results the timers have stored so far: none, the geospatial one, both
TimerProgress ==
    {<<None, None>>, <<Some(GeospatialMock), None>>,
     <<Some(GeospatialMock), Some(SustainabilityMock)>>}

\* the dashboards a report is generated from: the button of the overview is
\* enabled whatever was stored so far
DashboardSnapshots ==
    {[InitialAnalysisData EXCEPT !.financial = response,
                                 !.geospatial = stored[1],
                                 !.sustainability = stored[2]] :
        response \in FinancialResponses, stored \in TimerProgress}

ReportInputs ==
    {handleGenerateReport(projectName, data) :
        projectName \in ProjectNames, data \in DashboardSnapshots}

\* the values new Date().getTime() returns while a report is written
Timestamps == {1700, 1701}

RECURSIVE SkipWhitespace(_)
\* the rest of a text after the whitespace it starts with: the greedy \s+
SkipWhitespace(text) ==
    IF text # <<>> /\ Head(text) \in Whitespace
    THEN SkipWhitespace(Tail(text))
    ELSE text

\* one underscore for every whitespace character
RECURSIVE replaceEachWhitespace(_)
replaceEachWhitespace(text) ==
    IF text = <<>> THEN <<>>
    ELSE <<IF Head(text) \in Whitespace THEN "_" ELSE Head(text)>>
         \o replaceEachWhitespace(Tail(text))

RECURSIVE replaceWhitespace(_)
\* text.replace(/\s+/g, '_'): every maximal run of whitespace becomes one '_'
replaceWhitespace(text) ==
    IF text = <<>> THEN <<>>
    ELSE IF Head(text) \in Whitespace
         THEN <<"_">> \o replaceWhitespace(SkipWhitespace(Tail(text)))
         ELSE <<Head(text)>> \o replaceWhitespace(Tail(text))

\* the template literal assigned to a.download, as its pieces
downloadName(projectName, now) ==
    <<"Reporte_">> \o replaceWhitespace(projectName) \o <<"_", ToString(now), ".html">>

ExportFormats == {"pdf", "html", "docx"}

\* the 'Evaluación' line of the financial section
financialEvaluation(npv) ==
    IF npv > 0 THEN "Proyecto financieramente viable"
    ELSE "Requiere revision financiera"

\* the verdict with thresholds that include the score 6
viabilityVerdictInclusive(npv, locationScore, overallScore) ==
    IF npv > 0 /\ locationScore >= 60 /\ overallScore >= 60
    THEN "ALTAMENTE RECOMENDADO"
    ELSE IF npv > 0 \/ locationScore >= 60
         THEN "VIABLE CON CONSIDERACIONES"
         ELSE "REQUIERE REVISION"

\* the nested conditional of 'Viabilidad del Proyecto'; scores are in tenths
viabilityVerdict(npv, locationScore, overallScore) ==
    IF npv > 0 /\ locationScore > 60 /\ overallScore > 60
    THEN "ALTAMENTE RECOMENDADO"
    ELSE IF npv > 0 \/ locationScore > 60
         THEN "VIABLE CON CONSIDERACIONES"
         ELSE "REQUIERE REVISION"

\* the file generateHTMLReport hands to the browser (a.click())
generateHTMLReport(data, now) ==
    [format |-> "html",
     evaluation |-> financialEvaluation(data.financial.npv),
     viability |-> viabilityVerdict(data.financial.npv,
                                    data.geospatial.locationScore,
                                    data.sustainability.overallScore),
     download |-> downloadName(data.projectName, now),
     npv |-> data.financial.npv,
     irr |-> percentOneDecimal(data.financial.irr),
     locationScore |-> data.geospatial.locationScore,
     overallScore |-> data.sustainability.overallScore]

\* the timer callback producing a file whatever the format
generationStepAnyFormat(format, data, now, files) ==
    Append(files, generateHTMLReport(data, now))

\* the body of the setTimeout callback of generateReport: the files
\* downloaded so far, after it ran for the format it closed over
generationStep(format, data, now, files) ==
    IF format = "html" THEN Append(files, generateHTMLReport(data, now)) ELSE files

(***************************************************************************)
(* The data-fetching views: ProjectList, ProjectForm, Dashboard,           *)
(* ProjectComparison (its project list), ProjectAnalysis, and the          *)
(* GeospatialAnalysis and SustainabilityAnalysis views.  A request is      *)
(* <<"idle">>, <<"pending">>, <<"ok", data>> or <<"failed">>.  A view that *)
(* declares no error state or no loading flag keeps None and FALSE.  The   *)
(* string lists of the analysis results are left out.                      *)
(***************************************************************************)
\* err.response?.data?.detail || fallback
ErrorMessage(detail, fallback) == IF detail # None THEN detail[1] ELSE fallback

\* err.response?.data?.detail of a rejected request
ErrorDetails == {None, Some("detail of the backend")}

\* the object literals of the setTimeout callbacks of the two analysis views
GeospatialViewMock == [location_score |-> 75, accessibility_score |-> 82]

SustainabilityViewMock ==
    [overall_score |-> 82, carbon_footprint |-> 1250, energy_efficiency |-> 78,
     water_usage |-> 65, waste_management |-> 89,
     environmental_impact |-> [co2_reduction |-> 35, water_savings |-> 42,
                               energy_savings |-> 28]]

MockOf(view) ==
    IF view = "geospatial" THEN GeospatialViewMock ELSE SustainabilityViewMock

\* response.data of the two analysis endpoints: some analysis, or one that
\* equals the simulated one
AnalysisResponses(view) ==
    IF view = "geospatial"
    THEN {GeospatialViewMock, [location_score |-> 60, accessibility_score |-> 90]}
    ELSE {SustainabilityViewMock,
          [SustainabilityViewMock EXCEPT !.overall_score = 55]}

(***************************************************************************)
(* The pages that are not mounted hold their initial state.                *)
(***************************************************************************)
FetchViews ==
    {"projectList", "projectForm", "dashboard", "comparison", "financial",
     "geospatial", "sustainability"}

DashIdle ==
    /\ analysisData = InitialAnalysisData
    /\ financialCall = <<"idle">>
    /\ issuedCalls = <<>>
    /\ dashTimers = {}
    /\ dashboardView = None

ReportIdle ==
    /\ reportData = None
    /\ exportFormat = "pdf"
    /\ generating = FALSE
    /\ pendingGeneration = None
    /\ downloads = <<>>

FetchIdle ==
    /\ fetchRequest = [v \in FetchViews |-> <<"idle">>]
    /\ fetchError = [v \in FetchViews |-> None]
    /\ fetchLoading = [v \in FetchViews |-> FALSE]
    /\ fetchResult = [v \in FetchViews |-> None]
    /\ mockTimers = {}

\* useState<NavigationData>({}): every field is absent
NoData == [projectId |-> None, projectName |-> None, reportData |-> None]

\* the specifications of one view leave App and the overlapping requests of
\* the financial view in their initial state
AppIdle ==
    /\ currentPage = "dashboard"
    /\ navigationData = NoData
    /\ financialRequests = <<>>
    /\ chartFlows = None
    /\ chartView = None

PagesIdle == DashIdle /\ ReportIdle /\ FetchIdle /\ AppIdle

(***************************************************************************)
(* Actions of the financial analysis view.                                 *)
(***************************************************************************)
NoHistory == [k \in SortKeys |-> None]

\* the view renders the result the backend sent
ShowResult ==
    /\ result # None
    /\ analysisView = None
    /\ analysisView' = Some(RenderAnalysis(result[1]))
    /\ UNCHANGED <<result, selectVars, comparisonData, viewVars, pageVars>>

InitAnalysis ==
    /\ result \in {Some(r) : r \in ResultInputs}
    /\ analysisView = None
    /\ allProjects = <<>>
    /\ projectsRequest = "idle"
    /\ selectedProjects = <<>>
    /\ comparisonData = None
    /\ loading = FALSE
    /\ viewMode = "matrix"
    /\ sortBy = None
    /\ rankingView = None
    /\ radarView = None
    /\ firstShown = NoHistory
    /\ PagesIdle

NextAnalysis == ShowResult

SpecAnalysis == InitAnalysis /\ [][NextAnalysis]_vars

\* the view holding a response with any irr, over two cash-flow sequences
InitIrr ==
    /\ result \in {Some([npv |-> 25000, irr |-> v, cash_flows |-> cf]) :
                      v \in IrrInputs,
                      cf \in {None, Some(<<-100000, 20000, 20000>>)}}
    /\ analysisView = None
    /\ allProjects = <<>>
    /\ projectsRequest = "idle"
    /\ selectedProjects = <<>>
    /\ comparisonData = None
    /\ loading = FALSE
    /\ viewMode = "matrix"
    /\ sortBy = None
    /\ rankingView = None
    /\ radarView = None
    /\ firstShown = NoHistory
    /\ PagesIdle

SpecIrr == InitIrr /\ [][NextAnalysis]_vars

(***************************************************************************)
(* Actions of the comparison view: loading the project list, selecting     *)
(* projects, running the comparison.                                       *)
(***************************************************************************)
\* loadProjects resolves: setAllProjects(response.data.items || [])
LoadProjectsOk ==
    /\ projectsRequest = "pending"
    /\ \E items \in {Some(BackendProjects), None} :
         allProjects' = IF items # None THEN items[1] ELSE <<>>
    /\ projectsRequest' = "done"
    /\ UNCHANGED <<analysisVars, selectedProjects, loading, comparisonData, viewVars,
                   pageVars>>

\* loadProjects rejects: the error is logged, no state is set
LoadProjectsFail ==
    /\ projectsRequest = "pending"
    /\ projectsRequest' = "failed"
    /\ UNCHANGED <<analysisVars, allProjects, selectedProjects, loading,
                   comparisonData, viewVars, pageVars>>

\* a click on the k-th project card: onClick={() => canSelect && onProjectSelect(project)}
ClickProject(k) ==
    /\ k \in 1..Len(allProjects)
    /\ selectedProjects' =
         IF canSelect(selectedProjects, allProjects[k])
         THEN handleProjectSelect(selectedProjects, allProjects[k])
         ELSE selectedProjects
    /\ UNCHANGED <<analysisVars, allProjects, projectsRequest, loading,
                   comparisonData, viewVars, pageVars>>

\* the compare button: disabled={selectedProjects.length < 2 || loading}
CompareDisabled == Len(selectedProjects) < 2 \/ loading

\* onCompare: the handler runs to its end in one step (it awaits nothing), so
\* loading is false again when it returns; the early return does not touch it.
\* The handler checks the selection itself, whatever the button allowed.
RunComparison ==
    /\ comparisonData' \in runComparison(selectedProjects, comparisonData, RandCoarse)
    /\ loading' = IF Len(selectedProjects) < 2 THEN loading ELSE FALSE
    /\ UNCHANGED <<analysisVars, allProjects, projectsRequest, selectedProjects,
                   viewVars, pageVars>>

InitSelect ==
    /\ result = None
    /\ analysisView = None
    /\ allProjects = <<>>
    /\ projectsRequest = "pending"
    /\ selectedProjects = <<>>
    /\ comparisonData = None
    /\ loading = FALSE
    /\ viewMode = "matrix"
    /\ sortBy = None
    /\ rankingView = None
    /\ radarView = None
    /\ firstShown = NoHistory
    /\ PagesIdle

NextSelect ==
    \/ LoadProjectsOk
    \/ LoadProjectsFail
    \/ \E k \in 1..NumProjects : ClickProject(k)
    \/ RunComparison

SpecSelect == InitSelect /\ [][NextSelect]_vars

(***************************************************************************)
(* Actions of the comparison area: the view-mode buttons mount one of the  *)
(* matrix, the radar and the ranking table over comparisonData; the        *)
(* ranking table's criterion buttons set its sort key.                     *)
(***************************************************************************)
\* firstShown after the ranking displayed `view` under `key`
Remember(history, key, view) ==
    IF history[key] = None
    THEN [history EXCEPT ![key] = Some(OrderOf(view))]
    ELSE history

\* RankingTable renders under `key` over the current comparison data
ShowRanking(key) ==
    LET rendered == RenderRanking(comparisonData[1], key)
    IN /\ sortBy' = Some(key)
       /\ rankingView' = Some(rendered.view)
       /\ comparisonData' = Some(rendered.data)
       /\ firstShown' = Remember(firstShown, key, rendered.view)

\* onClick={() => setViewMode(mode)}: the component of the old mode unmounts,
\* the one of the new mode mounts with its initial state and renders
SetViewMode(mode) ==
    /\ comparisonData # None
    /\ mode # viewMode
    /\ viewMode' = mode
    /\ IF mode = "ranking"
       THEN ShowRanking("overall")
       ELSE /\ sortBy' = None
            /\ rankingView' = None
            /\ UNCHANGED <<comparisonData, firstShown>>
    /\ radarView' = IF mode = "radar"
                    THEN Some(DrawRadar(comparisonData[1]))
                    ELSE None
    /\ UNCHANGED <<analysisVars, selectVars, pageVars>>

\* onClick={() => setSortBy(criterion)} on a mounted ranking table
SetSortBy(criterion) ==
    /\ viewMode = "ranking"
    /\ comparisonData # None
    /\ ShowRanking(criterion)
    /\ UNCHANGED <<analysisVars, selectVars, viewMode, radarView, pageVars>>

\* the selections the views are checked on, as indexes into the project list
SelectionIndexes ==
    {<<2, 3>>, <<3, 5>>, <<1, 2>>, <<1, 2, 3>>, <<5, 4, 3>>,
     <<1, 2, 3, 4>>, <<5, 3, 2, 1>>}

ViewSelections ==
    {[k \in 1..Len(ix) |-> BackendProjects[ix[k]]] : ix \in SelectionIndexes}

\* the comparison view right after a comparison was run on a selection
InitViews ==
    /\ result = None
    /\ analysisView = None
    /\ allProjects = BackendProjects
    /\ projectsRequest = "done"
    /\ selectedProjects \in ViewSelections
    /\ comparisonData \in runComparison(selectedProjects, None, RandFine)
    /\ loading = FALSE
    /\ viewMode = "matrix"
    /\ sortBy = None
    /\ rankingView = None
    /\ radarView = None
    /\ firstShown = NoHistory
    /\ PagesIdle

NextViews ==
    \/ \E mode \in {"matrix", "radar", "ranking"} : SetViewMode(mode)
    \/ \E criterion \in SortKeys : SetSortBy(criterion)

SpecViews == InitViews /\ [][NextViews]_vars

(***************************************************************************)
(* Actions of the integrated dashboard.  The effect on mount calls         *)
(* runAllAnalyses, which runs up to its await; the part after the await    *)
(* runs when the financial call settles, and the two timers it starts fire *)
(* in the order of their delays (1500 ms before 2000 ms).                  *)
(***************************************************************************)
\* the state after each step is rendered
ShowDashboard == dashboardView' = Some(RenderDashboard(analysisData'))

\* App renders the dashboard until it navigates to the reports page
DashboardMounted == reportData = None

\* the await resolves: the response is stored, then both timers are started
FinancialResolves ==
    /\ DashboardMounted
    /\ financialCall = <<"pending">>
    /\ \E data \in FinancialResponses :
         /\ financialCall' = <<"resolved", data>>
         /\ analysisData' = startTimers(completeFinancial(analysisData, data))
    /\ dashTimers' = {"geospatial", "sustainability"}
    /\ ShowDashboard
    /\ UNCHANGED <<issuedCalls, analysisVars, comparisonVars, reportVars, fetchVars,
                   appVars>>

\* the await rejects: only the loading flag is reset, then both timers are started
FinancialRejects ==
    /\ DashboardMounted
    /\ financialCall = <<"pending">>
    /\ financialCall' = <<"rejected">>
    /\ analysisData' = startTimers(failFinancial(analysisData))
    /\ dashTimers' = {"geospatial", "sustainability"}
    /\ ShowDashboard
    /\ UNCHANGED <<issuedCalls, analysisVars, comparisonVars, reportVars, fetchVars,
                   appVars>>

\* the callback of setTimeout(..., 1500)
GeospatialTimer ==
    /\ DashboardMounted
    /\ "geospatial" \in dashTimers
    /\ analysisData' = completeGeospatial(analysisData)
    /\ dashTimers' = dashTimers \ {"geospatial"}
    /\ ShowDashboard
    /\ UNCHANGED <<financialCall, issuedCalls, analysisVars, comparisonVars,
                   reportVars, fetchVars, appVars>>

\* the callback of setTimeout(..., 2000)
SustainabilityTimer ==
    /\ DashboardMounted
    /\ "sustainability" \in dashTimers
    /\ "geospatial" \notin dashTimers
    /\ analysisData' = completeSustainability(analysisData)
    /\ dashTimers' = dashTimers \ {"sustainability"}
    /\ ShowDashboard
    /\ UNCHANGED <<financialCall, issuedCalls, analysisVars, comparisonVars,
                   reportVars, fetchVars, appVars>>

\* onClick={handleGenerateReport} of the overview: the button has no disabled
\* attribute; onNavigate("reports", { reportData }) replaces the dashboard
GenerateReport ==
    /\ DashboardMounted
    /\ \E projectName \in ProjectNames :
         reportData' = Some(handleGenerateReport(projectName, analysisData))
    /\ UNCHANGED <<exportFormat, generating, pendingGeneration, downloads>>
    /\ UNCHANGED <<dashVars, analysisVars, comparisonVars, fetchVars, appVars>>

\* the dashboard right after its mount effect: the financial call is in flight
InitDashboard ==
    /\ result = None
    /\ analysisView = None
    /\ allProjects = <<>>
    /\ projectsRequest = "idle"
    /\ selectedProjects = <<>>
    /\ comparisonData = None
    /\ loading = FALSE
    /\ viewMode = "matrix"
    /\ sortBy = None
    /\ rankingView = None
    /\ radarView = None
    /\ firstShown = NoHistory
    /\ analysisData = startLoading(InitialAnalysisData, "financial")
    /\ financialCall = <<"pending">>
    /\ issuedCalls = <<"financial">>
    /\ dashTimers = {}
    /\ dashboardView = Some(RenderDashboard(analysisData))
    /\ ReportIdle
    /\ FetchIdle
    /\ AppIdle

NextDashboard ==
    \/ FinancialResolves
    \/ FinancialRejects
    \/ GeospatialTimer
    \/ SustainabilityTimer

SpecDashboard == InitDashboard /\ [][NextDashboard]_vars

\* the dashboard with its report button
NextDashboardReport ==
    \/ NextDashboard
    \/ GenerateReport

SpecDashboardReport == InitDashboard /\ [][NextDashboardReport]_vars

(***************************************************************************)
(* Actions of the data-fetching views.                                     *)
(***************************************************************************)
Pending(view) == fetchRequest[view] = <<"pending">>

Settle(view, outcome) == fetchRequest' = [fetchRequest EXCEPT ![view] = outcome]

OtherPagesUnchanged ==
    UNCHANGED <<analysisVars, comparisonVars, dashVars, reportVars, appVars>>

\* ProjectList.loadProjects resolves: setProjects, finally setLoading(false)
ListResolves ==
    /\ Pending("projectList")
    /\ Settle("projectList", <<"ok", BackendProjects>>)
    /\ fetchResult' = [fetchResult EXCEPT !["projectList"] = Some(BackendProjects)]
    /\ fetchLoading' = [fetchLoading EXCEPT !["projectList"] = FALSE]
    /\ UNCHANGED <<fetchError, mockTimers>>
    /\ OtherPagesUnchanged

\* ProjectList.loadProjects rejects: setError, finally setLoading(false)
ListRejects ==
    /\ Pending("projectList")
    /\ Settle("projectList", <<"failed">>)
    /\ fetchError' = [fetchError EXCEPT !["projectList"] = Some("Error cargando proyectos")]
    /\ fetchLoading' = [fetchLoading EXCEPT !["projectList"] = FALSE]
    /\ UNCHANGED <<fetchResult, mockTimers>>
    /\ OtherPagesUnchanged

\* ProjectForm.handleSubmit up to its await; the button is disabled while loading
SubmitForm ==
    /\ fetchRequest["projectForm"][1] \in {"idle", "failed"}
    /\ ~fetchLoading["projectForm"]
    /\ Settle("projectForm", <<"pending">>)
    /\ fetchLoading' = [fetchLoading EXCEPT !["projectForm"] = TRUE]
    /\ fetchError' = [fetchError EXCEPT !["projectForm"] = None]
    /\ UNCHANGED <<fetchResult, mockTimers>>
    /\ OtherPagesUnchanged

\* createProject resolves: alert, onSuccess(), finally setLoading(false)
FormResolves ==
    /\ Pending("projectForm")
    /\ Settle("projectForm", <<"ok", "created">>)
    /\ fetchLoading' = [fetchLoading EXCEPT !["projectForm"] = FALSE]
    /\ UNCHANGED <<fetchError, fetchResult, mockTimers>>
    /\ OtherPagesUnchanged

\* createProject rejects: setError, finally setLoading(false)
FormRejects ==
    /\ Pending("projectForm")
    /\ Settle("projectForm", <<"failed">>)
    /\ \E detail \in ErrorDetails :
         fetchError' = [fetchError EXCEPT !["projectForm"] =
                            Some(ErrorMessage(detail, "Error creando proyecto"))]
    /\ fetchLoading' = [fetchLoading EXCEPT !["projectForm"] = FALSE]
    /\ UNCHANGED <<fetchResult, mockTimers>>
    /\ OtherPagesUnchanged

\* Dashboard.loadDashboardData resolves: setProjects, setStats
DashboardResolves ==
    /\ Pending("dashboard")
    /\ Settle("dashboard", <<"ok", BackendProjects>>)
    /\ fetchResult' = [fetchResult EXCEPT !["dashboard"] = Some(BackendProjects)]
    /\ UNCHANGED <<fetchError, fetchLoading, mockTimers>>
    /\ OtherPagesUnchanged

\* Dashboard.loadDashboardData rejects: console.error, no state is set
DashboardRejects ==
    /\ Pending("dashboard")
    /\ Settle("dashboard", <<"failed">>)
    /\ UNCHANGED <<fetchError, fetchLoading, fetchResult, mockTimers>>
    /\ OtherPagesUnchanged

\* ProjectComparison.loadProjects resolves: setAllProjects
ComparisonResolves ==
    /\ Pending("comparison")
    /\ Settle("comparison", <<"ok", BackendProjects>>)
    /\ fetchResult' = [fetchResult EXCEPT !["comparison"] = Some(BackendProjects)]
    /\ UNCHANGED <<fetchError, fetchLoading, mockTimers>>
    /\ OtherPagesUnchanged

\* ProjectComparison.loadProjects rejects: console.error, no state is set
ComparisonRejects ==
    /\ Pending("comparison")
    /\ Settle("comparison", <<"failed">>)
    /\ UNCHANGED <<fetchError, fetchLoading, fetchResult, mockTimers>>
    /\ OtherPagesUnchanged

\* ProjectAnalysis.runAnalysis up to its await, one call at a time (the run
\* button is disabled while loading); the calls that overlap through the
\* recalculate button are followed by SpecFinancial
RunFinancial ==
    /\ ~Pending("financial")
    /\ ~fetchLoading["financial"]
    /\ Settle("financial", <<"pending">>)
    /\ fetchLoading' = [fetchLoading EXCEPT !["financial"] = TRUE]
    /\ fetchError' = [fetchError EXCEPT !["financial"] = None]
    /\ UNCHANGED <<fetchResult, mockTimers>>
    /\ OtherPagesUnchanged

\* runFinancialAnalysis resolves: setResult, finally setLoading(false)
FinancialViewResolves ==
    /\ Pending("financial")
    /\ Settle("financial", <<"ok", "analysis">>)
    /\ fetchResult' = [fetchResult EXCEPT !["financial"] = Some("analysis")]
    /\ fetchLoading' = [fetchLoading EXCEPT !["financial"] = FALSE]
    /\ UNCHANGED <<fetchError, mockTimers>>
    /\ OtherPagesUnchanged

\* runFinancialAnalysis rejects: setError, finally setLoading(false)
FinancialViewRejects ==
    /\ Pending("financial")
    /\ Settle("financial", <<"failed">>)
    /\ \E detail \in ErrorDetails :
         fetchError' = [fetchError EXCEPT !["financial"] =
                            Some(ErrorMessage(detail, "Error ejecutando analisis"))]
    /\ fetchLoading' = [fetchLoading EXCEPT !["financial"] = FALSE]
    /\ UNCHANGED <<fetchResult, mockTimers>>
    /\ OtherPagesUnchanged

\* runAnalysis of the geospatial or sustainability view up to its await; the
\* button is rendered while there is no result and disabled while loading
RunAnalysis(view) ==
    /\ fetchResult[view] = None
    /\ ~fetchLoading[view]
    /\ Settle(view, <<"pending">>)
    /\ fetchLoading' = [fetchLoading EXCEPT ![view] = TRUE]
    /\ fetchError' = [fetchError EXCEPT ![view] = None]
    /\ UNCHANGED <<fetchResult, mockTimers>>
    /\ OtherPagesUnchanged

\* the analysis call resolves: setResult(response.data); loading is not reset
AnalysisResolves(view) ==
    /\ Pending(view)
    /\ \E data \in AnalysisResponses(view) :
         /\ Settle(view, <<"ok", data>>)
         /\ fetchResult' = [fetchResult EXCEPT ![view] = Some(data)]
    /\ UNCHANGED <<fetchError, fetchLoading, mockTimers>>
    /\ OtherPagesUnchanged

\* the analysis call rejects: the catch block starts the timer
AnalysisRejects(view) ==
    /\ Pending(view)
    /\ Settle(view, <<"failed">>)
    /\ mockTimers' = mockTimers \cup {view}
    /\ UNCHANGED <<fetchError, fetchLoading, fetchResult>>
    /\ OtherPagesUnchanged

\* the timer callback without its setLoading(false)
MockTimerKeepsLoading(view) ==
    /\ view \in mockTimers
    /\ mockTimers' = mockTimers \ {view}
    /\ fetchResult' = [fetchResult EXCEPT ![view] = Some(MockOf(view))]
    /\ UNCHANGED <<fetchRequest, fetchError, fetchLoading>>
    /\ OtherPagesUnchanged

\* the callback of setTimeout(..., 2000): setResult(simulated), setLoading(false)
MockTimer(view) ==
    /\ view \in mockTimers
    /\ mockTimers' = mockTimers \ {view}
    /\ fetchResult' = [fetchResult EXCEPT ![view] = Some(MockOf(view))]
    /\ fetchLoading' = [fetchLoading EXCEPT ![view] = FALSE]
    /\ UNCHANGED <<fetchRequest, fetchError>>
    /\ OtherPagesUnchanged

AnalysisViews == {"geospatial", "sustainability"}

\* the views that fetch on mount have their request in flight (ProjectList
\* starts with loading true); the others wait for a click
InitFetch ==
    /\ result = None
    /\ analysisView = None
    /\ allProjects = <<>>
    /\ projectsRequest = "idle"
    /\ selectedProjects = <<>>
    /\ comparisonData = None
    /\ loading = FALSE
    /\ viewMode = "matrix"
    /\ sortBy = None
    /\ rankingView = None
    /\ radarView = None
    /\ firstShown = NoHistory
    /\ DashIdle
    /\ ReportIdle
    /\ AppIdle
    /\ fetchRequest = [v \in FetchViews |->
                         IF v \in {"projectList", "dashboard", "comparison"}
                         THEN <<"pending">> ELSE <<"idle">>]
    /\ fetchError = [v \in FetchViews |-> None]
    /\ fetchLoading = [v \in FetchViews |-> v = "projectList"]
    /\ fetchResult = [v \in FetchViews |-> None]
    /\ mockTimers = {}

NextFetch ==
    \/ ListResolves
    \/ ListRejects
    \/ SubmitForm
    \/ FormResolves
    \/ FormRejects
    \/ DashboardResolves
    \/ DashboardRejects
    \/ ComparisonResolves
    \/ ComparisonRejects
    \/ RunFinancial
    \/ FinancialViewResolves
    \/ FinancialViewRejects
    \/ \E view \in AnalysisViews : RunAnalysis(view)
    \/ \E view \in AnalysisViews : AnalysisResolves(view)
    \/ \E view \in AnalysisViews : AnalysisRejects(view)
    \/ \E view \in AnalysisViews : MockTimer(view)

SpecFetch == InitFetch /\ [][NextFetch]_vars

\* a started timer fires
SpecFetchFair == SpecFetch /\ \A view \in AnalysisViews : WF_vars(MockTimer(view))

(***************************************************************************)
(* Actions of the report generator.                                        *)
(***************************************************************************)
ReportOthersUnchanged ==
    UNCHANGED <<analysisVars, comparisonVars, dashVars, fetchVars, appVars>>

\* onChange={(e) => setExportFormat(e.target.value)} of a format radio button
SetExportFormat(format) ==
    /\ reportData # None
    /\ format # exportFormat
    /\ exportFormat' = format
    /\ UNCHANGED <<reportData, generating, pendingGeneration, downloads>>
    /\ ReportOthersUnchanged

\* onClick={generateReport} with disabled={generating}: setGenerating(true) and
\* setTimeout(..., 2000); the callback closes over the format of this render
ClickGenerate ==
    /\ reportData # None
    /\ ~generating
    /\ Len(downloads) < MaxDownloads
    /\ generating' = TRUE
    /\ pendingGeneration' = Some(exportFormat)
    /\ UNCHANGED <<reportData, exportFormat, downloads>>
    /\ ReportOthersUnchanged

\* the setTimeout callback: the HTML report or a console.log, setGenerating(false)
GenerationStep ==
    /\ pendingGeneration # None
    /\ \E now \in Timestamps :
          downloads' = generationStep(pendingGeneration[1], reportData[1], now, downloads)
    /\ generating' = FALSE
    /\ pendingGeneration' = None
    /\ UNCHANGED <<reportData, exportFormat>>
    /\ ReportOthersUnchanged

\* the report page right after the dashboard navigated to it
InitReport ==
    /\ result = None
    /\ analysisView = None
    /\ allProjects = <<>>
    /\ projectsRequest = "idle"
    /\ selectedProjects = <<>>
    /\ comparisonData = None
    /\ loading = FALSE
    /\ viewMode = "matrix"
    /\ sortBy = None
    /\ rankingView = None
    /\ radarView = None
    /\ firstShown = NoHistory
    /\ DashIdle
    /\ FetchIdle
    /\ AppIdle
    /\ reportData \in {Some(data) : data \in ReportInputs}
    /\ exportFormat = "pdf"
    /\ generating = FALSE
    /\ pendingGeneration = None
    /\ downloads = <<>>

NextReport ==
    \/ \E format \in ExportFormats : SetExportFormat(format)
    \/ ClickGenerate
    \/ GenerationStep

SpecReport == InitReport /\ [][NextReport]_vars

(***************************************************************************)
(* App.tsx: the pages and the navigation the rendered views offer.         *)
(***************************************************************************)
Pages ==
    {"dashboard", "projects", "newProject", "analysis", "geospatial",
     "sustainability", "integrated", "reports", "advanced", "comparison"}

\* the pages rendered only with navigationData.projectId
ProjectPages == {"analysis", "geospatial", "sustainability", "integrated"}

Nav(page, data) == [page |-> page, data |-> data]

\* { projectId, projectName } of a listed project
ProjectData(project) ==
    [projectId |-> Some(project.id), projectName |-> Some(project.name),
     reportData |-> None]

\* what the JSX of App renders for a page: nothing when the guard of the page
\* (navigationData.projectId, navigationData.reportData) is falsy
Rendered(page, data) ==
    CASE page \in ProjectPages -> data.projectId # None
      [] page = "reports" -> data.reportData # None
      [] OTHER -> TRUE

\* Dashboard: the three quick actions, through handleNavigation(page) with
\* data || {}, and the first three recent projects
DashboardOffers ==
    {Nav(page, NoData) : page \in {"newProject", "projects", "advanced"}}
    \cup {Nav("analysis", ProjectData(BackendProjects[i])) :
            i \in 1..(IF NumProjects < 3 THEN NumProjects ELSE 3)}

\* the projects page: its two buttons (setCurrentPage only) and the four
\* buttons of each listed project (handleAnalyzeProject and the like)
ProjectsOffers(data) ==
    {Nav(page, data) : page \in {"dashboard", "newProject"}}
    \cup {Nav(page, ProjectData(BackendProjects[i])) :
            page \in ProjectPages, i \in 1..NumProjects}

\* IntegratedAnalysisDashboard: onBack, and handleGenerateReport through
\* handleNavigation("reports", { reportData })
IntegratedOffers(data) ==
    {Nav("projects", data)}
    \cup {Nav("reports",
              [NoData EXCEPT !.reportData =
                  Some(handleGenerateReport(data.projectName[1], snapshot))]) :
            snapshot \in DashboardSnapshots}

\* the navigation states one click away: the handlers of the rendered view
Offers(page, data) ==
    CASE ~Rendered(page, data) -> {}
      [] page = "dashboard" -> DashboardOffers
      [] page = "projects" -> ProjectsOffers(data)
      [] page = "newProject" -> {Nav("projects", data)}
      [] page \in {"analysis", "geospatial", "sustainability"} -> {Nav("projects", data)}
      [] page = "integrated" -> IntegratedOffers(data)
      [] page = "reports" -> {Nav("integrated", data)}
      [] page \in {"comparison", "advanced"} -> {Nav("dashboard", data)}

\* a click on a control of the rendered page
Navigate(page) ==
    /\ currentPage = page
    /\ \E next \in Offers(page, navigationData) :
         /\ currentPage' = next.page
         /\ navigationData' = next.data
    /\ UNCHANGED <<analysisVars, comparisonVars, dashVars, reportVars, fetchVars,
                   financialRequests, chartVars>>

InitNav ==
    /\ result = None
    /\ analysisView = None
    /\ allProjects = <<>>
    /\ projectsRequest = "idle"
    /\ selectedProjects = <<>>
    /\ comparisonData = None
    /\ loading = FALSE
    /\ viewMode = "matrix"
    /\ sortBy = None
    /\ rankingView = None
    /\ radarView = None
    /\ firstShown = NoHistory
    /\ PagesIdle

NextNav == \E page \in Pages : Navigate(page)

SpecNav == InitNav /\ [][NextNav]_vars

(***************************************************************************)
(* ProjectAnalysis.tsx: the run button (rendered while there is no result, *)
(* disabled while loading) and the recalculate button (rendered with the   *)
(* result, never disabled) both call runAnalysis, so that calls overlap.   *)
(***************************************************************************)
MaxRequests == 4

\* response.data of the call issued as the id-th
ResponseOf(id) == <<"analysis", id>>

\* runAnalysis up to its await: setLoading(true), setError(null), the call
issueRequest ==
    /\ Len(financialRequests) < MaxRequests
    /\ financialRequests' = Append(financialRequests, "pending")
    /\ fetchLoading' = [fetchLoading EXCEPT !["financial"] = TRUE]
    /\ fetchError' = [fetchError EXCEPT !["financial"] = None]
    /\ UNCHANGED <<fetchRequest, fetchResult, mockTimers>>
    /\ UNCHANGED <<analysisVars, comparisonVars, dashVars, reportVars, navVars,
                   chartVars>>

\* onClick={runAnalysis} disabled={loading} inside {!result && ...}
ClickRun ==
    /\ fetchResult["financial"] = None
    /\ ~fetchLoading["financial"]
    /\ issueRequest

\* onClick={runAnalysis} of 'Recalcular Análisis' inside {result && ...}
ClickRecalculate ==
    /\ fetchResult["financial"] # None
    /\ issueRequest

\* a call resolves: setResult(response.data), finally setLoading(false)
RequestResolves(id) ==
    /\ id \in 1..Len(financialRequests)
    /\ financialRequests[id] = "pending"
    /\ financialRequests' = [financialRequests EXCEPT ![id] = "ok"]
    /\ fetchResult' = [fetchResult EXCEPT !["financial"] = Some(ResponseOf(id))]
    /\ fetchLoading' = [fetchLoading EXCEPT !["financial"] = FALSE]
    /\ UNCHANGED <<fetchRequest, fetchError, mockTimers>>
    /\ UNCHANGED <<analysisVars, comparisonVars, dashVars, reportVars, navVars,
                   chartVars>>

\* a call rejects: setError(detail || 'Error ejecutando análisis'), finally
\* setLoading(false)
RequestRejects(id) ==
    /\ id \in 1..Len(financialRequests)
    /\ financialRequests[id] = "pending"
    /\ financialRequests' = [financialRequests EXCEPT ![id] = "failed"]
    /\ \E detail \in ErrorDetails :
         fetchError' = [fetchError EXCEPT !["financial"] =
                            Some(ErrorMessage(detail, "Error ejecutando analisis"))]
    /\ fetchLoading' = [fetchLoading EXCEPT !["financial"] = FALSE]
    /\ UNCHANGED <<fetchRequest, fetchResult, mockTimers>>
    /\ UNCHANGED <<analysisVars, comparisonVars, dashVars, reportVars, navVars,
                   chartVars>>

\* the financial analysis view right after its mount
InitFinancial == InitNav

NextFinancial ==
    \/ ClickRun
    \/ ClickRecalculate
    \/ \E id \in 1..MaxRequests : RequestResolves(id)
    \/ \E id \in 1..MaxRequests : RequestRejects(id)

SpecFinancial == InitFinancial /\ [][NextFinancial]_vars

(***************************************************************************)
(* AdvancedFuturisticCharts: the cash-flow bar chart of the integrated     *)
(* dashboard (CSSCashFlowChart). Heights are in tenths of a pixel.         *)
(***************************************************************************)
RECURSIVE MaxAbs(_)
\* Math.max(...cashFlows.map(Math.abs)) of a non-empty array
MaxAbs(flows) ==
    IF Len(flows) = 1 THEN Abs(flows[1])
    ELSE LET rest == MaxAbs(Tail(flows))
         IN IF Abs(flows[1]) > rest THEN Abs(flows[1]) ELSE rest

\* (Math.abs(flow) / maxValue) * 200: 0 / 0 is NaN, x / 0 is Infinity
barHeight(flow, maxValue) ==
    IF maxValue # 0 THEN JsFinite((Abs(flow) * 2000) \div maxValue)
    ELSE IF flow = 0 THEN JsNaN ELSE JsInfinity

\* the bars CSSCashFlowChart draws, or None for its 'Sin datos' message
CSSCashFlowChart(cashFlows) ==
    IF Len(cashFlows) = 0 THEN None
    ELSE Some([k \in 1..Len(Slice(cashFlows, DisplayCap)) |->
                 [height |-> barHeight(cashFlows[k], MaxAbs(cashFlows)),
                  isPositive |-> cashFlows[k] >= 0]])

\* the chart renders its prop: cashFlows = [] when the prop is undefined
RenderChart ==
    /\ chartView = None
    /\ chartView' = Some(CSSCashFlowChart(IF chartFlows = None THEN <<>>
                                          ELSE chartFlows[1]))
    /\ UNCHANGED <<chartFlows, analysisVars, comparisonVars, dashVars, reportVars,
                   fetchVars, navVars, financialRequests>>

\* the chart is handed analysisData.financial?.cash_flows
InitChart ==
    /\ result = None
    /\ analysisView = None
    /\ allProjects = <<>>
    /\ projectsRequest = "idle"
    /\ selectedProjects = <<>>
    /\ comparisonData = None
    /\ loading = FALSE
    /\ viewMode = "matrix"
    /\ sortBy = None
    /\ rankingView = None
    /\ radarView = None
    /\ firstShown = NoHistory
    /\ DashIdle
    /\ ReportIdle
    /\ FetchIdle
    /\ currentPage = "dashboard"
    /\ navigationData = NoData
    /\ financialRequests = <<>>
    /\ chartFlows \in {None} \cup {Some(flows) : flows \in CashFlowInputs}
    /\ chartView = None

NextChart == RenderChart

SpecChart == InitChart /\ [][NextChart]_vars

(***************************************************************************)
(* Properties of the financial analysis view.                              *)
(***************************************************************************)
\* the cash flows of the result on display (an absent sequence has none)
ShownFlows ==
    IF result = None \/ result[1].cash_flows = None
    THEN <<>>
    ELSE result[1].cash_flows[1]

\* sums over the first k entries, by index
RECURSIVE NetUpTo(_, _)
NetUpTo(f, k) == IF k = 0 THEN 0 ELSE NetUpTo(f, k - 1) + f[k]

RECURSIVE OutflowUpTo(_, _)
OutflowUpTo(f, k) ==
    IF k = 0 THEN 0
    ELSE OutflowUpTo(f, k - 1) + (IF f[k] < 0 THEN 0 - f[k] ELSE 0)

RECURSIVE InflowUpTo(_, _)
InflowUpTo(f, k) ==
    IF k = 0 THEN 0
    ELSE InflowUpTo(f, k - 1) + (IF f[k] > 0 THEN f[k] ELSE 0)

Scenario2Flows == <<-100000, 20000, 20000, 20000, 20000, 20000>>

\* C1: for every cash-flow sequence the displayed total investment is the sum
\* of the magnitudes of all negative entries and the displayed total revenue
\* the sum of all positive entries, over the full sequence, so revenue minus
\* investment is the sum of all cash flows; the scenario sequence gives
\* 100000 for both; an empty or absent sequence gives 0 for both.
C1_TotalsPartitionFlows ==
    analysisView # None =>
        LET f == ShownFlows
            v == analysisView[1]
        IN /\ v.total_investment = OutflowUpTo(f, Len(f))
           /\ v.total_revenue = InflowUpTo(f, Len(f))
           /\ v.total_revenue - v.total_investment = NetUpTo(f, Len(f))
           /\ (f = <<>> => v.total_investment = 0 /\ v.total_revenue = 0)
           /\ (f = Scenario2Flows =>
                  v.total_investment = 100000 /\ v.total_revenue = 100000)

C1_Witness ==
    /\ analysisView # None
    /\ ShownFlows = Scenario2Flows
    /\ analysisView[1].total_investment = 100000
    /\ analysisView[1].total_revenue = 100000

\* C2: every row of the cash-flow table shows, as its cumulative balance, the
\* sum of the cash flows of periods 0..i inclusive, also when the sequence is
\* longer than the 12 rows on display.
C2_CumulativeIsPrefixSum ==
    (analysisView # None /\ analysisView[1].rows # None) =>
        LET f == ShownFlows
            rows == analysisView[1].rows[1]
        IN /\ Len(rows) >= 1
           /\ Len(rows) <= Len(f)
           /\ \A k \in 1..Len(rows) :
                /\ rows[k].period = k
                /\ rows[k].accumulated = NetUpTo(f, k)

C2_Witness ==
    /\ analysisView # None
    /\ analysisView[1].rows # None
    /\ Len(ShownFlows) > 12
    /\ ShownFlows[1] = -100000
    /\ Len(analysisView[1].rows[1]) = 12
    /\ analysisView[1].rows[1][6].accumulated = 0
    /\ analysisView[1].rows[1][12].accumulated = 120000

(***************************************************************************)
(* Properties of the ranking table.                                        *)
(***************************************************************************)
\* the index of the project with this id in the comparison's project list
IndexOfId(data, id) == CHOOSE k \in 1..Len(data.projects) : data.projects[k].id = id

\* the value of the selected field in a metric bundle
SelectedValue(bundle, key) ==
    IF key = "overall" THEN bundle.overall
    ELSE IF key = "npv" THEN bundle.financial.npv
    ELSE IF key = "irr" THEN bundle.financial.irr
    ELSE bundle.sustainability.score

\* the value of the selected field the comparison data holds for a project id
ValueOfId(data, id, key) == SelectedValue(data.metrics[IndexOfId(data, id)], key)

RankingShown == rankingView # None /\ sortBy # None /\ comparisonData # None

\* the ranking lists every project of the comparison once
IsPermutationOfProjects(order, data) ==
    /\ Len(order) = Len(data.projects)
    /\ \A k \in 1..Len(data.projects) :
         Cardinality({i \in 1..Len(order) : order[i] = data.projects[k].id}) = 1

\* C3: under every sort key the ranking lists the projects of the comparison
\* in non-increasing order of the selected field, so the project with the
\* highest value is first; with two projects of overall 8.5 and 6.2 the 8.5
\* project is first under 'overall', and under 'irr' the one with the higher
\* IRR is first.
C3_RankingIsDescending ==
    RankingShown =>
        LET data == comparisonData[1]
            key == sortBy[1]
            order == OrderOf(rankingView[1])
        IN /\ key \in SortKeys
           /\ IsPermutationOfProjects(order, data)
           /\ \A i, j \in 1..Len(order) :
                i < j => ValueOfId(data, order[i], key) >= ValueOfId(data, order[j], key)
           /\ \A k \in 1..Len(order) :
                ValueOfId(data, order[1], key) >= ValueOfId(data, order[k], key)
           /\ (Len(data.projects) = 2 /\ key = "overall"
               /\ {data.metrics[1].overall, data.metrics[2].overall} = {85, 62})
              => ValueOfId(data, order[1], "overall") = 85
           /\ (Len(data.projects) = 2 /\ key = "irr"
               /\ data.metrics[1].financial.irr # data.metrics[2].financial.irr)
              => ValueOfId(data, order[1], "irr") > ValueOfId(data, order[2], "irr")

\* scenario 3: overall 8.5 and 6.2, the 6.2 project has the higher IRR; it was
\* second under 'overall' and is first after the switch to 'irr'
C3_Witness ==
    /\ RankingShown
    /\ sortBy = Some("irr")
    /\ Len(comparisonData[1].projects) = 2
    /\ comparisonData[1].metrics[1].overall = 85
    /\ comparisonData[1].metrics[2].overall = 62
    /\ comparisonData[1].metrics[1].financial.irr < comparisonData[1].metrics[2].financial.irr
    /\ firstShown["overall"] =
         Some(<<comparisonData[1].projects[1].id, comparisonData[1].projects[2].id>>)
    /\ OrderOf(rankingView[1]) =
         <<comparisonData[1].projects[2].id, comparisonData[1].projects[1].id>>

\* every ranked row carries the metric bundle at its project's index in data
RowsCarryOwnMetrics ==
    RankingShown =>
        \A k \in 1..Len(rankingView[1].rows) :
            LET row == rankingView[1].rows[k].project
            IN /\ \E i \in 1..Len(comparisonData[1].projects) :
                    comparisonData[1].projects[i].id = row.id
               /\ row.metrics = comparisonData[1].metrics[IndexOfId(comparisonData[1], row.id)]
               /\ row.name = comparisonData[1].projects[IndexOfId(comparisonData[1], row.id)].name

\* C4: computing the ranking and changing the sort key leave the comparison
\* data as it was (the same projects and metrics in the same order), and
\* every ranked row carries the metrics at its project's original index.
C4_RankingLeavesDataUnchanged ==
    /\ RowsCarryOwnMetrics
    /\ [][/\ comparisonData' = comparisonData
          /\ RowsCarryOwnMetrics']_vars

\* the key was changed to 'npv' and the ranking differs from the data's order
C4_Witness ==
    /\ RankingShown
    /\ sortBy = Some("npv")
    /\ Len(comparisonData[1].projects) = 4
    /\ OrderOf(rankingView[1]) # [k \in 1..4 |-> comparisonData[1].projects[k].id]
    /\ firstShown["overall"] # None
    /\ firstShown["overall"] # firstShown["npv"]

\* C5: for the same comparison data a sort key always yields the same order:
\* the order on display under a key is the order first displayed under that
\* key, whatever keys were selected in between and however often.
C5_OrderDependsOnKeyOnly ==
    RankingShown => firstShown[sortBy[1]] = Some(OrderOf(rankingView[1]))

\* all four keys have been displayed, 'overall' (the key at mount) is on
\* display again, two projects tie under it and another key orders them the
\* other way round
C5_Witness ==
    /\ RankingShown
    /\ sortBy = Some("overall")
    /\ \A key \in SortKeys : firstShown[key] # None
    /\ firstShown["irr"] # firstShown["overall"]
    /\ \E i, j \in 1..Len(comparisonData[1].projects) :
         /\ i < j
         /\ comparisonData[1].metrics[i].overall = comparisonData[1].metrics[j].overall
         /\ comparisonData[1].metrics[i].financial.irr < comparisonData[1].metrics[j].financial.irr

\* C6: the ranking sort is stable: projects with equal values of the selected
\* field keep the relative order they have in the comparison's project list.
C6_RankingIsStable ==
    RankingShown =>
        LET data == comparisonData[1]
            key == sortBy[1]
            order == OrderOf(rankingView[1])
        IN \A i, j \in 1..Len(order) :
              (i < j /\ ValueOfId(data, order[i], key) = ValueOfId(data, order[j], key))
              => IndexOfId(data, order[i]) < IndexOfId(data, order[j])

\* three projects, the last of the list ranks first and the other two tie
C6_Witness ==
    /\ RankingShown
    /\ sortBy = Some("irr")
    /\ Len(comparisonData[1].projects) = 3
    /\ comparisonData[1].metrics[1].financial.irr = comparisonData[1].metrics[2].financial.irr
    /\ comparisonData[1].metrics[3].financial.irr > comparisonData[1].metrics[1].financial.irr
    /\ OrderOf(rankingView[1]) =
         <<comparisonData[1].projects[3].id, comparisonData[1].projects[1].id,
           comparisonData[1].projects[2].id>>

\* C7: the row at sorted position 1 shows the first-place marker, positions 2
\* and 3 the second- and third-place markers, every position from 4 on the
\* plain ordinal, and the recommended project is the project at rank 1 under
\* the sort key now selected.
C7_RankAnnotation ==
    RankingShown =>
        LET view == rankingView[1]
            data == comparisonData[1]
        IN /\ \A k \in 1..Len(view.rows) :
                view.rows[k].medal =
                    IF k = 1 THEN <<"gold medal">>
                    ELSE IF k = 2 THEN <<"silver medal">>
                    ELSE IF k = 3 THEN <<"bronze medal">>
                    ELSE <<"#", k>>
           /\ Len(view.rows) > 0
           /\ view.recommended = Some(view.rows[1].project.name)
           /\ view.criterion = sortBy[1]
           /\ \A k \in 1..Len(data.projects) :
                ValueOfId(data, view.rows[1].project.id, sortBy[1])
                    >= SelectedValue(data.metrics[k], sortBy[1])

C7_Witness ==
    /\ RankingShown
    /\ sortBy = Some("sustainability")
    /\ Len(rankingView[1].rows) = 4
    /\ rankingView[1].rows[4].medal = <<"#", 4>>
    /\ rankingView[1].rows[3].medal = <<"bronze medal">>
    /\ rankingView[1].recommended # Some(comparisonData[1].projects[1].name)
    /\ firstShown["overall"] # None
    /\ firstShown["overall"][1][1] # rankingView[1].rows[1].project.id

(***************************************************************************)
(* Properties of the radar chart.                                          *)
(***************************************************************************)
RadarCeilings == <<2000000, 300, 100, 100, 100, 1000>>

\* the raw values of a bundle in axis order: NPV, IRR, location,
\* accessibility, sustainability, ROI
RawAxes(bundle) ==
    <<bundle.financial.npv, bundle.financial.irr, bundle.geospatial.location,
      bundle.geospatial.accessibility, bundle.sustainability.score,
      bundle.financial.roi>>

\* C8: every vertex of every polygon is the metric divided by its fixed
\* ceiling (NPV 2,000,000; IRR 0.30; the scores 10; ROI 100) and clamped into
\* [0,1]: a raw value at or above the ceiling is drawn at exactly the full
\* radius, a negative one at radius 0, so no vertex lies outside the outermost
\* grid ring.
C8_RadarClampsToUnit ==
    (radarView # None /\ comparisonData # None) =>
        /\ Len(radarView[1]) = Len(comparisonData[1].projects)
        /\ \A p \in 1..Len(radarView[1]) :
             /\ Len(radarView[1][p]) = 6
             /\ \A m \in 1..6 :
                  LET v == radarView[1][p][m]
                      raw == RawAxes(comparisonData[1].metrics[p])[m]
                  IN /\ v.den = RadarCeilings[m]
                     /\ 0 <= v.num /\ v.num <= v.den
                     /\ (raw >= RadarCeilings[m] => v.num = v.den)
                     /\ (raw <= 0 => v.num = 0)
                     /\ (0 < raw /\ raw < RadarCeilings[m] => v.num = raw)

\* an NPV of 5,000,000 drawn at the full radius beside a negative NPV drawn
\* at the centre
C8_Witness ==
    /\ radarView # None
    /\ comparisonData # None
    /\ comparisonData[1].metrics[1].financial.npv = 5000000
    /\ radarView[1][1][1] = [num |-> 2000000, den |-> 2000000]
    /\ comparisonData[1].metrics[2].financial.npv < 0
    /\ radarView[1][2][1].num = 0
    /\ comparisonData[1].metrics[1].financial.irr > 300
    /\ radarView[1][1][2].num = 300

(***************************************************************************)
(* Properties of the project selection and of running the comparison.      *)
(***************************************************************************)
IdsOf(projects) == [k \in 1..Len(projects) |-> projects[k].id]

\* at most 4 projects selected, no id twice
SelectionBounded ==
    /\ Len(selectedProjects) <= 4
    /\ \A i, j \in 1..Len(selectedProjects) :
         selectedProjects[i].id = selectedProjects[j].id => i = j

\* what a click on the k-th project card does to the selection
ClickEffect(k) ==
    LET project == allProjects[k]
        ids == IdsOf(selectedProjects)
        chosen == \E i \in 1..Len(ids) : ids[i] = project.id
    IN IF chosen
       THEN \* exactly that project is removed, the others keep their order
            LET at == CHOOSE i \in 1..Len(ids) : ids[i] = project.id
            IN selectedProjects' =
                 SubSeq(selectedProjects, 1, at - 1)
                 \o SubSeq(selectedProjects, at + 1, Len(selectedProjects))
       ELSE IF Len(ids) < 4
       THEN selectedProjects' = selectedProjects \o <<project>>
       ELSE selectedProjects' = selectedProjects

\* C9: after any sequence of project-select clicks the selection holds at
\* most 4 projects and no id twice; a click on a selected project removes
\* exactly that project, a click on an unselected one adds it only when fewer
\* than 4 are selected, and changes nothing while 4 are selected.
C9_SelectionAtMostFourDistinct ==
    /\ SelectionBounded
    /\ [][/\ SelectionBounded'
          /\ \A k \in 1..Len(allProjects) : ClickProject(k) => ClickEffect(k)]_vars

\* four projects selected, project 2 skipped, so that a card of an
\* unselected project is left to click
C9_Witness ==
    /\ IdsOf(selectedProjects) = <<1, 3, 4, 5>>
    /\ Len(allProjects) > 4
    /\ \E k \in 1..Len(allProjects) : ~isSelected(selectedProjects, allProjects[k])

\* comparison data holds 2 to 4 projects and one bundle per project, the
\* bundle at an index being one synthesized for the project at that index
DataWellFormed ==
    comparisonData # None =>
        LET data == comparisonData[1]
        IN /\ Len(data.projects) >= 2
           /\ Len(data.projects) <= 4
           /\ Len(data.metrics) = Len(data.projects)
           /\ DOMAIN data.metrics = DOMAIN data.projects
           /\ \A k \in 1..Len(data.projects) :
                /\ (data.projects[k].npv # None /\ data.projects[k].npv[1] # 0)
                   => data.metrics[k].financial.npv = data.projects[k].npv[1]
                /\ (data.projects[k].irr # None /\ data.projects[k].irr[1] # 0)
                   => data.metrics[k].financial.irr = data.projects[k].irr[1]

\* C10: comparison data is produced only from a selection of 2 to 4
\* projects: a run with fewer than 2 selected leaves it unchanged, and
\* whenever it exists it has 2 to 4 projects and one metric bundle per
\* project at the same index, also after the selection is changed.
C10_DataFromTwoToFour ==
    /\ DataWellFormed
    /\ [][/\ DataWellFormed'
          /\ (comparisonData' # comparisonData =>
                /\ Len(selectedProjects) >= 2
                /\ Len(selectedProjects) <= 4
                /\ comparisonData'[1].projects = selectedProjects)
          /\ (Len(selectedProjects) < 2 => comparisonData' = comparisonData)
          /\ (selectedProjects' # selectedProjects => comparisonData' = comparisonData)]_vars

\* data of 4 projects still on display after the selection was emptied
C10_Witness ==
    /\ comparisonData # None
    /\ Len(comparisonData[1].projects) = 4
    /\ selectedProjects = <<>>

(***************************************************************************)
(* Properties of the synthesized comparison metrics.                       *)
(***************************************************************************)
\* the bundle at index k carries the project's own value of `field`
TakesOwnField(data, k, field) ==
    data.projects[k][field] # None
        => data.metrics[k].financial[field] = data.projects[k][field][1]

\* C11: after a comparison was run, every project's bundle carries the
\* project's own npv and irr whenever the project has them, a present 0 or
\* negative value included.
C11_PresentFieldsAreTaken ==
    comparisonData # None =>
        \A k \in 1..Len(comparisonData[1].projects) :
            /\ TakesOwnField(comparisonData[1], k, "npv")
            /\ TakesOwnField(comparisonData[1], k, "irr")

(***************************************************************************)
(* Properties of the rendering of an IRR.                                  *)
(***************************************************************************)
\* the irr of the response on display and the text of the TIR card
ShownIrr == result[1].irr
IrrText == analysisView[1].irr

\* what the claim lists for formatPercentage, case by case
FormatPercentageCases ==
    analysisView # None =>
        /\ (ShownIrr \in {JsUndefined, JsNull, JsNaN, JsInfinity, JsNegInfinity}
              => IrrText = NotAvailable)
        /\ ((typeof(ShownIrr) = "string" /\ includes(ShownIrr[2], CorruptToken))
              => IrrText = NotAvailable)
        /\ (isFinite(ShownIrr) =>
              /\ IrrText[1] = "percent"
              /\ IrrText[3] = 2
              /\ 10 * IrrText[2] - ShownIrr[2][2] \in -5..5)

\* C12: formatPercentage never yields 'NaN%': undefined, null, NaN, the
\* infinities and every string containing the corrupt token give 'N/A', a
\* finite number v gives v*100 with two decimals and '%'.
C12_FormatPercentageNeverNaN ==
    /\ FormatPercentageCases
    /\ (analysisView # None => IrrText # NaNPercent)

\* C13: no view that displays an IRR renders it as 'NaN%': not the financial
\* analysis view, not the TIR card of the integrated dashboard, not the
\* generated report.
C13_NoViewRendersNaN ==
    /\ (analysisView # None => IrrText # NaNPercent)
    /\ (dashboardView # None => dashboardView[1].tir # Some(NaNPercent))
    /\ \A k \in 1..Len(downloads) : downloads[k].irr # NaNPercent

(***************************************************************************)
(* Properties of the data-fetching views.                                  *)
(***************************************************************************)
\* C14: after a failed request in any data-fetching view, that view's error
\* message is set and its loading flag is false.
C14_FailureSetsErrorMessage ==
    \A view \in FetchViews :
        fetchRequest[view] = <<"failed">>
            => fetchError[view] # None /\ ~fetchLoading[view]

\* the view shows the simulated result, not loading, with no error message
ShowsMock(view) ==
    /\ fetchResult[view] = Some(MockOf(view))
    /\ ~fetchLoading[view]
    /\ fetchError[view] = None

\* a resolved request's data is the result on display, and no timer is pending
\* that could replace it; after a failure no error message is ever set
AnalysisResultIsFaithful ==
    \A view \in AnalysisViews :
        /\ fetchRequest[view][1] = "ok"
             => /\ fetchResult[view] = Some(fetchRequest[view][2])
                /\ view \notin mockTimers
        /\ fetchRequest[view] = <<"failed">>
             => /\ fetchError[view] = None
                /\ (view \notin mockTimers => ShowsMock(view))

\* C15: in the geospatial and the sustainability view a failed request leads
\* to the fixed simulated result with loading false and no error message,
\* and a resolved request's result is the response data, which no simulated
\* result replaces.
C15_MockOnFailureOnly ==
    /\ []AnalysisResultIsFaithful
    /\ \A view \in AnalysisViews :
         (fetchRequest[view] = <<"failed">>) ~> ShowsMock(view)

\* the geospatial view shows the simulated result after a failure while the
\* sustainability view shows a response that differs from its simulated one
C15_Witness ==
    /\ fetchRequest["geospatial"] = <<"failed">>
    /\ ShowsMock("geospatial")
    /\ fetchRequest["sustainability"][1] = "ok"
    /\ fetchResult["sustainability"] # Some(SustainabilityViewMock)
    /\ fetchResult["sustainability"] = Some(fetchRequest["sustainability"][2])

(***************************************************************************)
(* Properties of the integrated dashboard.                                 *)
(***************************************************************************)
Slices == {"financial", "geospatial", "sustainability"}

\* `after` differs from `before` in no result slice and no loading flag but
\* those of `slice`
OnlySliceChanged(before, after, slice) ==
    \A other \in Slices \ {slice} :
        /\ after[other] = before[other]
        /\ after.loading[other] = before.loading[other]

\* the three completion updaters applied to `data` in the order given
ApplyCompletions(data, order, response) ==
    LET step(d, slice) ==
            CASE slice = "financial" -> completeFinancial(d, response)
              [] slice = "geospatial" -> completeGeospatial(d)
              [] slice = "sustainability" -> completeSustainability(d)
    IN step(step(step(data, order[1]), order[2]), order[3])

CompletionOrders ==
    {order \in [1..3 -> Slices] : \A i, j \in 1..3 : i # j => order[i] # order[j]}

\* applied to the state at hand, every completion updater touches its own
\* slice and flag only, and the six orders of the three give the same state
CompletionsIndependent ==
    \A response \in FinancialResponses :
        /\ OnlySliceChanged(analysisData, completeFinancial(analysisData, response),
                            "financial")
        /\ OnlySliceChanged(analysisData, failFinancial(analysisData), "financial")
        /\ OnlySliceChanged(analysisData, completeGeospatial(analysisData), "geospatial")
        /\ OnlySliceChanged(analysisData, completeSustainability(analysisData),
                            "sustainability")
        /\ \A o1, o2 \in CompletionOrders :
             ApplyCompletions(analysisData, o1, response)
                = ApplyCompletions(analysisData, o2, response)

\* the financial call has settled and both timers have fired
RunFinished == financialCall[1] \in {"resolved", "rejected"} /\ dashTimers = {}

\* the state the run ends in, given the outcome of the financial call
FinalAnalysisData ==
    [financial |-> IF financialCall[1] = "resolved" THEN financialCall[2] ELSE None,
     geospatial |-> Some(GeospatialMock),
     sustainability |-> Some(SustainabilityMock),
     loading |-> [financial |-> FALSE, geospatial |-> FALSE, sustainability |-> FALSE]]

\* a step that completes one analysis leaves the results of the other two and
\* the loading flags of completed or unstarted analyses as they are
CompletionStep ==
    /\ \A slice \in Slices :
         analysisData'[slice] # analysisData[slice]
            => \A other \in Slices \ {slice} : analysisData'[other] = analysisData[other]
    /\ \A slice \in {"geospatial", "sustainability"} :
         (slice \in dashTimers /\ slice \notin dashTimers')
            => /\ OnlySliceChanged(analysisData, analysisData', slice)
               /\ ~analysisData'.loading[slice]

C17_ThreeBackendCalls ==
    RunFinished => issuedCalls = <<"financial", "geospatial", "sustainability">>

\* the sub-scores that count in a state: those of the analyses whose result
\* is present and that are not loading
AvailableScores ==
    {<<slice, score>> \in Slices \X (0..Tenths(100)) :
        /\ analysisData[slice] # None
        /\ ~analysisData.loading[slice]
        /\ score = CASE slice = "financial" ->
                          IF analysisData.financial[1].npv > 0 THEN 5100 ELSE 2400
                     [] slice = "geospatial" ->
                          30 * (analysisData.geospatial[1].location_score
                                + analysisData.geospatial[1].accessibility_score)
                     [] slice = "sustainability" ->
                          60 * analysisData.sustainability[1].overall_score}

RECURSIVE SumOfScores(_)
SumOfScores(pairs) ==
    IF pairs = {} THEN 0
    ELSE LET pair == CHOOSE q \in pairs : TRUE
         IN pair[2] + SumOfScores(pairs \ {pair})

\* C18: the overall score on display is the mean of the sub-scores of the
\* analyses whose result is present and not loading (8.5 or 4.0 by the sign
\* of the NPV, the mean of the two geospatial scores, the sustainability
\* score), 0 when there is none, and lies between 0 and 10.
C18_OverallScoreIsMean ==
    dashboardView # None =>
        LET shown == dashboardView[1].overallScore
            n == Cardinality(AvailableScores)
        IN /\ (n = 0 => shown = 0)
           /\ (n > 0 => shown * n = SumOfScores(AvailableScores))
           /\ shown >= 0
           /\ shown <= Tenths(100)

\* the mean of two sub-scores, 4.0 for a non-positive NPV and 7.85 for the
\* geospatial result, while the sustainability analysis is still loading
C18_Witness ==
    /\ dashboardView # None
    /\ analysisData.financial # None
    /\ analysisData.financial[1].npv <= 0
    /\ analysisData.geospatial # None
    /\ analysisData.loading.sustainability
    /\ dashboardView[1].overallScore = 3555

(***************************************************************************)
(* Properties of the overall score of a comparison bundle.                 *)
(***************************************************************************)
\* the sub-scores of a bundle: everything but its overall score
SubScores(bundle) == <<bundle.financial, bundle.geospatial, bundle.sustainability>>

\* C19: the overall score of a comparison bundle is a function of the same
\* bundle's financial, geospatial and sustainability sub-scores: two bundles
\* with identical sub-scores have identical overall scores.
C19_OverallFollowsSubScores ==
    comparisonData # None =>
        \A j, k \in 1..Len(comparisonData[1].metrics) :
            SubScores(comparisonData[1].metrics[j]) = SubScores(comparisonData[1].metrics[k])
                => comparisonData[1].metrics[j].overall = comparisonData[1].metrics[k].overall

(***************************************************************************)
(* Properties of the report generator.                                     *)
(***************************************************************************)
\* a click on generate: the flag is raised and the format on display is the
\* one the pending generation will use; nothing is downloaded yet
ClickStep ==
    (pendingGeneration = None /\ pendingGeneration' # None)
        => /\ generating'
           /\ pendingGeneration' = Some(exportFormat)
           /\ downloads' = downloads

\* the generation step: one more file exactly when the click was on 'html'
GenerationOutcome ==
    (pendingGeneration # None /\ pendingGeneration' = None)
        => /\ ~generating'
           /\ (pendingGeneration[1] = "html"
                 => /\ Len(downloads') = Len(downloads) + 1
                    /\ downloads'[Len(downloads')].format = "html")
           /\ (pendingGeneration[1] \in {"pdf", "docx"} => downloads' = downloads)

\* C20: only HTML export produces a file: the generation step of a click adds
\* a download exactly when the format selected at the click was 'html', none
\* for 'pdf' (the initial selection) and 'docx', files appear in no other
\* step, and the generating flag is true exactly between the click and the
\* generation step.
C20_OnlyHtmlDownloads ==
    /\ exportFormat = "pdf"
    /\ [](generating <=> pendingGeneration # None)
    /\ [][/\ ClickStep
          /\ GenerationOutcome
          /\ (pendingGeneration' = pendingGeneration => downloads' = downloads)]_vars

\* one report was downloaded, and a second generation clicked on 'html' is
\* pending while the selection has moved on to 'pdf'
C20_Witness ==
    /\ Len(downloads) = 1
    /\ generating
    /\ pendingGeneration = Some("html")
    /\ exportFormat = "pdf"

(***************************************************************************)
(* Properties of the report file name (ReportGenerator.tsx).               *)
(***************************************************************************)
\* the part of a file name between 'Reporte_' and '_<time>.html'
NamePart(download) == SubSeq(download, 2, Len(download) - 3)

\* a project name with each of its spaces turned into an underscore
SpacesToUnderscores(name) ==
    [i \in 1..Len(name) |-> IF name[i] = " " THEN "_" ELSE name[i]]

\* the positions of a name that survive: its other characters and the first
\* character of each maximal run of whitespace
Kept(name) ==
    {i \in 1..Len(name) :
        name[i] \notin Whitespace \/ i = 1 \/ name[i - 1] \notin Whitespace}

\* the k-th surviving position of a name
KeptAt(name, k) ==
    CHOOSE i \in Kept(name) : Cardinality({j \in Kept(name) : j <= i}) = k

\* a project name with each maximal run of whitespace turned into one underscore
RunsToUnderscores(name) ==
    [k \in 1..Cardinality(Kept(name)) |->
        IF name[KeptAt(name, k)] \in Whitespace THEN "_" ELSE name[KeptAt(name, k)]]

FileNamed(file, namePart) ==
    \E now \in Timestamps :
        file.download = <<"Reporte_">> \o namePart \o <<"_", ToString(now), ".html">>

\* C21 as stated: every downloaded report is named 'Reporte_', the project
\* name with each space replaced by an underscore, '_', the time in
\* milliseconds and '.html', and the name part holds no whitespace.
C21_SpacesBecomeUnderscores ==
    \A k \in 1..Len(downloads) :
        /\ FileNamed(downloads[k], SpacesToUnderscores(reportData[1].projectName))
        /\ \A i \in 1..Len(NamePart(downloads[k].download)) :
              NamePart(downloads[k].download)[i] \notin Whitespace

\* C21 amended: every downloaded report is named 'Reporte_', the project name
\* with each maximal run of whitespace (spaces, tabs) replaced by one
\* underscore, '_', the time in milliseconds and '.html', and the name part
\* holds no whitespace.
C21_WhitespaceRunsBecomeUnderscores ==
    \A k \in 1..Len(downloads) :
        /\ FileNamed(downloads[k], RunsToUnderscores(reportData[1].projectName))
        /\ \A i \in 1..Len(NamePart(downloads[k].download)) :
              NamePart(downloads[k].download)[i] \notin Whitespace

\* a report was downloaded for a project whose name is a space and a tab
C21_Witness ==
    /\ Len(downloads) > 0
    /\ reportData[1].projectName = <<" ", "\t">>
    /\ downloads[1].download = <<"Reporte_", "_", "_", "1701", ".html">>

(***************************************************************************)
(* Properties of the report data (handleGenerateReport).                   *)
(***************************************************************************)
\* the analysis of a slice has completed with a result
Completed(slice) == analysisData[slice] # None /\ ~analysisData.loading[slice]

\* C22: every financial, geospatial and sustainability value of the report
\* data is the value of the corresponding completed analysis result, never a
\* placeholder for an analysis that is still loading or has failed.
C22_ReportFromCompletedResults ==
    reportData # None =>
        /\ Completed("financial")
        /\ reportData[1].financial.npv = analysisData.financial[1].npv
        /\ reportData[1].financial.irr = analysisData.financial[1].irr
        /\ Completed("geospatial")
        /\ reportData[1].geospatial.locationScore
              = analysisData.geospatial[1].location_score
        /\ reportData[1].geospatial.accessibilityScore
              = analysisData.geospatial[1].accessibility_score
        /\ Completed("sustainability")
        /\ reportData[1].sustainability.overallScore
              = analysisData.sustainability[1].overall_score

(***************************************************************************)
(* Properties of the cash-flow table and chart (ProjectAnalysis.tsx,       *)
(* CashFlowChart).                                                         *)
(***************************************************************************)
ShownCount(flows) == IF Len(flows) < 12 THEN Len(flows) ELSE 12

RECURSIVE SumAt(_, _)
\* the sum of the flows at the positions of a set
SumAt(flows, positions) ==
    IF positions = {} THEN 0
    ELSE LET i == CHOOSE j \in positions : TRUE
         IN flows[i] + SumAt(flows, positions \ {i})

\* the table and the chart show the first min(n, 12) flows in their order,
\* the totals are taken over all n
FirstTwelveShown(view, flows) ==
    /\ Len(view.rows[1]) = ShownCount(flows)
    /\ Len(view.chart[1]) = ShownCount(flows)
    /\ \A k \in 1..ShownCount(flows) :
         /\ view.rows[1][k].period = k
         /\ view.rows[1][k].flow = flows[k]
         /\ view.chart[1][k].label = k
         /\ view.chart[1][k].value = flows[k]
    /\ view.total_investment
          = 0 - SumAt(flows, {i \in 1..Len(flows) : flows[i] < 0})
    /\ view.total_revenue = SumAt(flows, {i \in 1..Len(flows) : flows[i] > 0})

\* C23: for a cash-flow sequence of length n the table and the bar chart show
\* exactly the first min(n, 12) entries in their original order, and the
\* displayed totals are computed over all n entries.
C23_FirstTwelveShownTotalsOverAll ==
    (analysisView # None /\ result[1].cash_flows # None
        /\ Len(result[1].cash_flows[1]) > 0)
       => FirstTwelveShown(analysisView[1], result[1].cash_flows[1])

\* a result of 13 flows is shown, and the 13th flow counts in the revenue
C23_Witness ==
    /\ analysisView # None
    /\ result[1].cash_flows # None
    /\ Len(result[1].cash_flows[1]) = 13
    /\ result[1].cash_flows[1][13] = 20000
    /\ Len(analysisView[1].chart[1]) = 12
    /\ analysisView[1].total_revenue = 13 * 20000

(***************************************************************************)
(* Properties of the navigation (App.tsx).                                 *)
(***************************************************************************)
\* C24: after any sequence of navigation actions from the dashboard the page
\* shown has the parameters it requires (a project id on the analysis,
\* geospatial, sustainability and integrated pages, report data on the reports
\* page), so that no screen is empty, and going back from the report generator
\* shows the integrated dashboard of the project.
C24_NoEmptyScreen ==
    /\ Rendered(currentPage, navigationData)
    /\ currentPage = "integrated" => navigationData.projectId # None

RECURSIVE NavClosure(_)
\* the navigation states reachable from a set of them by clicks
NavClosure(states) ==
    LET next == states \cup UNION {Offers(st.page, st.data) : st \in states}
    IN IF next = states THEN states ELSE NavClosure(next)

PagesReachableFrom(start) == {st.page : st \in NavClosure({start})}

\* C25: every page of the Page type, the comparison page included, is
\* reachable from the initial dashboard page by the actions the rendered
\* views offer.
C25_EveryPageReachable ==
    (currentPage = "dashboard" /\ navigationData = NoData)
       => \A page \in Pages :
             page \in PagesReachableFrom(Nav(currentPage, navigationData))

\* the comparison page is never shown
ComparisonNeverShown == currentPage # "comparison"

(***************************************************************************)
(* Properties of the overlapping requests of the financial analysis view.  *)
(***************************************************************************)
Outstanding == {id \in 1..Len(financialRequests) : financialRequests[id] = "pending"}

\* C26: in the financial analysis view, for every sequence of run and
\* recalculate clicks and every interleaving of the responses, the loading
\* flag is true exactly while at least one request is outstanding, and false
\* once all have completed.
C26_LoadingWhileOutstanding == fetchLoading["financial"] <=> Outstanding # {}

\* C27: in the financial analysis view, once all issued requests have
\* completed, the displayed result and error are those of the request issued
\* last: the response of an earlier request arriving late never overwrites
\* them.
C27_LastRequestWins ==
    (financialRequests # <<>> /\ Outstanding = {}) =>
        LET last == Len(financialRequests)
        IN /\ financialRequests[last] = "ok"
                => /\ fetchResult["financial"] = Some(ResponseOf(last))
                   /\ fetchError["financial"] = None
           /\ financialRequests[last] = "failed" => fetchError["financial"] # None

(***************************************************************************)
(* Properties of the loading flag of the geospatial and sustainability     *)
(* analysis views.                                                         *)
(***************************************************************************)
\* C28: in the geospatial and sustainability analysis views every started
\* analysis ends with loading false, on success as on failure: loading is
\* never left true once the result has been set.
C28_LoadingFalseWithResult ==
    \A view \in AnalysisViews : fetchResult[view] # None => ~fetchLoading[view]

(***************************************************************************)
(* Properties of the cash-flow bar chart of the integrated dashboard.      *)
(***************************************************************************)
\* C29: for every non-empty cash-flow sequence each displayed bar has a
\* height that is a defined number between 0 and 200, the absolute value of
\* its flow scaled by the largest absolute value of the whole sequence; also
\* when every cash flow is 0.
C29_BarHeightsDefined ==
    (chartView # None /\ chartFlows # None /\ chartFlows[1] # <<>>) =>
        /\ chartView[1] # None
        /\ \A k \in 1..Len(chartView[1][1]) :
             LET height == chartView[1][1][k].height
             IN /\ typeof(height) = "number"
                /\ ~isNaN(height)
                /\ isFinite(height)
                /\ \E tenths \in 0..2000 : height = JsFinite(tenths)

(***************************************************************************)
(* Properties of the verdict of the report (ReportGenerator.tsx).          *)
(***************************************************************************)
\* scores in tenths around the threshold 6, and net present values around 0
ScoreGrid == {59, 60, 61}
NpvGrid == {-1, 0, 1}

\* the verdict is one of the three texts, each under its condition
VerdictAsStated(verdict, npv, location, sustainability) ==
    /\ verdict \in {"ALTAMENTE RECOMENDADO", "VIABLE CON CONSIDERACIONES",
                    "REQUIERE REVISION"}
    /\ verdict = "ALTAMENTE RECOMENDADO"
          <=> (npv > 0 /\ location > 60 /\ sustainability > 60)
    /\ verdict = "VIABLE CON CONSIDERACIONES"
          <=> (~(npv > 0 /\ location > 60 /\ sustainability > 60)
               /\ (npv > 0 \/ location > 60))
    /\ verdict = "REQUIERE REVISION" <=> ~(npv > 0 \/ location > 60)

\* C30: the verdict of a report is a total function of its values (those of
\* the report at hand, and every combination of values around the thresholds):
\* 'ALTAMENTE RECOMENDADO' exactly when the net present value is positive and
\* the location and sustainability scores both exceed 6, otherwise 'VIABLE CON
\* CONSIDERACIONES' exactly when the net present value is positive or the
\* location score exceeds 6, otherwise 'REQUIERE REVISION'; the financial
\* evaluation line says viable exactly when the net present value is positive.
C30_VerdictIsTotal ==
    \A k \in 1..Len(downloads) :
        /\ VerdictAsStated(downloads[k].viability,
                           reportData[1].financial.npv,
                           reportData[1].geospatial.locationScore,
                           reportData[1].sustainability.overallScore)
        /\ downloads[k].evaluation = "Proyecto financieramente viable"
              <=> reportData[1].financial.npv > 0
        /\ downloads[k].evaluation
              \in {"Proyecto financieramente viable", "Requiere revision financiera"}
        /\ (k = 1 /\ Len(downloads) = 1 /\ pendingGeneration = None) =>
              \A npv \in NpvGrid, location \in ScoreGrid, sustainability \in ScoreGrid :
                 /\ VerdictAsStated(viabilityVerdict(npv, location, sustainability),
                                    npv, location, sustainability)
                 /\ financialEvaluation(npv) = "Proyecto financieramente viable"
                       <=> npv > 0

\* reports of each of the three verdicts have been downloaded
C30_Witness ==
    /\ Len(downloads) > 0
    /\ downloads[1].viability = "REQUIERE REVISION"
    /\ reportData[1].sustainability.overallScore = 0
    /\ reportData[1].financial.npv = -5000
    /\ downloads[1].evaluation = "Requiere revision financiera"

====
